---------------------------- MODULE Spec2Model ----------------------------
(* Verification model of the renderer:                                    *)
(*   - the scene graph (Scene / SceneNode),                               *)
(*   - the real-time tile scheduler (RealtimeRayTracer),                  *)
(*   - the per-frame loop of the Engine,                                  *)
(*   - BVH traversal against brute-force intersection.                    *)
(* Each part has its own specification (SpecScene, SpecRT, SpecQuality,   *)
(* SpecEngine, SpecBVH) over the shared state below; the variables a      *)
(* specification does not use keep their constructed values.              *)
EXTENDS Integers, Sequences, FiniteSets, TLC

\* ------------------------------------------------------------------------
\* Bounds of the model
\* ------------------------------------------------------------------------
MaxNodes == 3          \* live scene nodes, the root included
RenderWidth == 18      \* Engine render target, width in pixels
RenderHeight == 18     \* Engine render target, height in pixels
MaxSamples == 4        \* tiles timed in one run of the scheduler
MaxQualitySamples == 6 \* tiles timed in one run of the quality controller
MaxEngineNodes == 2    \* live scene nodes in the frame loop, the root included
MaxPrimitives == 3     \* primitives in one rt_hittable_list
MaxOffset == 1         \* how far the keyboard moves a node along the axis
MaxCameraRange == 4    \* how far the eye and the target go from the origin
MaxVerts == 1          \* vertices of the Model whose blend shapes are followed
FloatBits == 3         \* significand bits of a vertex coordinate
ShadowWidth == 3       \* pixels in the row of the shadow buffer that is followed
MaxRayDepth == 3       \* largest depth ray_color is called with
MaxCoord == 10         \* largest magnitude of a converted vector component

\* ------------------------------------------------------------------------
\* State
\* ------------------------------------------------------------------------
VARIABLES
    \* Scene
    nodes,             \* live SceneNode objects: id -> fields
    rootNode,          \* Scene::rootNode
    selectedNode,      \* Scene::selectedNode (raw pointer, may dangle)
    loadedModels,      \* Scene::loadedModels (keys of the registry)
    ret,               \* what the last Scene call was and what it returned
    camera,            \* Scene::camera.position
    \* RealtimeRayTracer
    is_active,
    quality_level,
    tile_size,
    current_tile_x,
    current_tile_y,
    total_tiles_x,
    total_tiles_y,
    rt_cam,            \* rt_cam.samples_per_pixel, rt_cam.max_depth
    rt_framebuffer,    \* low-resolution buffer: pixel index -> colour
    progress_overlay,  \* full-resolution overlay: pixel index -> colour
    world,             \* snapshot the BVH was last built from
    world_needs_update,
    last_camera_position,
    show_progress_overlay,
    adaptive_quality,
    show_tile_boundaries,
    average_frame_time,
    performance_samples,
    tile_time,         \* the last time render_one_tile measured
    \* bookkeeping of the model: the current run of render_one_tile calls
    pass,
    \* Engine
    pc,                \* where Engine::run is in the frame
    keys,              \* Engine::keys, the scancodes held down
    framebuffer,       \* Engine::framebuffer: pixel index -> colour
    cuda_available,    \* what initCudaRasterizer reported
    use_cuda_rendering,
    blend_strength,    \* RealtimeRayTracer::blend_strength, in tenths
    \* bookkeeping of the model: the steps taken so far in this frame tick
    frame,
    \* Engine camera controls
    orbitMode,
    cameraDistance,
    cameraRotationX,   \* pitch
    cameraRotationY,   \* yaw
    cameraTarget,
    camera_target,     \* Scene::camera.target
    \* bookkeeping of the model: the toggleCameraMode calls in a row, and the
    \* eye/target pair they started from
    round_trip,
    \* Model
    verts_,            \* Model::verts_, one coordinate per vertex
    originalVerts_,
    hasBackup_,
    blendShapes,       \* name -> target vertices
    blendWeights,      \* name -> weight, in halves
    \* bookkeeping of the model: the last Model call and its arguments
    model_call,
    \* rt_hittable_list and rt_bvh
    objects,           \* rt_hittable_list::objects
    bvh,               \* rt_bvh::root
    cast,              \* the last ray cast and what each structure reported
    \* Shadow-mapped rasterizer
    shadowbuffer,      \* light-space depth per pixel of one buffer row
    tempZ,             \* z-buffer of the light pass
    shadow_scene,      \* the two faces drawn: ground plane and triangle
    shader_pc,         \* which pass runs and which fragment is next
    shade,             \* the shadow factor each camera-pass fragment got
    \* ray_color
    ray_stack,         \* the ray_color calls in progress, innermost last
    ray_call,          \* the outermost call: its depth, what it has done so far
    \* unified_math.h
    conv,              \* the last conversions made and their operands
    \* the machine
    tile_clock         \* quality level -> time one tile takes, in ms

sceneVars == <<nodes, rootNode, selectedNode, loadedModels, ret>>

tileVars == <<tile_size, current_tile_x, current_tile_y, total_tiles_x, total_tiles_y>>

bufferVars == <<rt_framebuffer, progress_overlay>>

statVars == <<average_frame_time, performance_samples, tile_time>>

flagVars == <<show_progress_overlay, adaptive_quality, show_tile_boundaries>>

rtVars == <<is_active, quality_level, tileVars, rt_cam, bufferVars, world,
            world_needs_update, last_camera_position, flagVars, statVars, pass>>

engineVars == <<pc, keys>>

frameVars == <<framebuffer, cuda_available, use_cuda_rendering, blend_strength, frame>>

bvhVars == <<objects, bvh, cast>>

cameraVars == <<orbitMode, cameraDistance, cameraRotationX, cameraRotationY,
                cameraTarget, camera_target, round_trip>>

\* What the scene, scheduler, frame and BVH specifications leave alone.
modelVars == <<verts_, originalVerts_, hasBackup_, blendShapes, blendWeights,
               model_call>>

shaderVars == <<shadowbuffer, tempZ, shadow_scene, shader_pc, shade>>

rayVars == <<ray_stack, ray_call>>

restVars == <<cameraVars, modelVars, shaderVars, rayVars, conv, tile_clock>>

vars == <<sceneVars, camera, rtVars, engineVars, frameVars, restVars, bvhVars>>

\* ------------------------------------------------------------------------
\* Scene graph: values
\* ------------------------------------------------------------------------
NULL == 0
\* A node name is a string; a generated suffix "_N" is a further element.
RootName == <<"Root">>
EmptyName == <<>>
\* Files the loader may be pointed at, and the vertex count Model::Model
\* reads from each (a file that cannot be opened yields zero vertices).
Paths == {"a.obj", "missing.obj"}
NoModel == "none"

FileVerts(path) == IF path = "a.obj" THEN 3 ELSE 0

extractModelName(path) == IF path = "a.obj" THEN <<"a">> ELSE <<"missing">>

camera_move_threshold == 1
InitialCamera == 2

\* Transform and Matrix, restricted to one axis without rotation:
\* a Transform is (position, scale), its matrix is x |-> s*x + p.
Identity == [s |-> 1, p |-> 0]

Abs(x) == IF x < 0 THEN -x ELSE x

RECURSIVE Pow2(_)
Pow2(n) == IF n = 0 THEN 1 ELSE 2 * Pow2(n - 1)

getMatrix(t) == [s |-> t.scale, p |-> t.position]

MatMul(a, b) == [s |-> a.s * b.s, p |-> a.s * b.p + a.p]

NewNode(nodeName, modelPath) ==
    [name |-> nodeName, parent |-> NULL, children |-> <<>>,
     visible |-> TRUE, selected |-> FALSE, model |-> modelPath,
     localTransform |-> [position |-> 0, scale |-> 1],
     worldTransform |-> [position |-> 0, scale |-> 1]]

Live == DOMAIN nodes
\* Addresses operator new may return: addresses carry no meaning except
\* that a stale pointer may or may not alias the new object, so the
\* allocator returns either the lowest free address that no stale
\* selection points at, or the address the stale selection points at.
NewIds ==
    LET free == (1..(MaxNodes + 1)) \ Live
        fresh == free \ {selectedNode}
    IN  (IF fresh = {} THEN {} ELSE {CHOOSE x \in fresh : \A y \in fresh : x <= y})
        \cup (free \cap {selectedNode})

\* ------------------------------------------------------------------------
\* Scene graph: helpers
\* ------------------------------------------------------------------------
\* Index of the first element of seq (ids) whose node in ns has the name,
\* 0 when there is none (std::find_if over the child list).
RECURSIVE FirstNamed(_, _, _, _)
FirstNamed(ns, seq, nm, i) ==
    IF i > Len(seq) THEN 0
    ELSE IF ns[seq[i]].name = nm THEN i
    ELSE FirstNamed(ns, seq, nm, i + 1)

\* SceneNode::findDescendant: direct children first, then depth-first.
RECURSIVE findDescendant(_, _, _)
RECURSIVE findInChildren(_, _, _, _)
findInChildren(ns, seq, nm, i) ==
    IF i > Len(seq) THEN NULL
    ELSE LET found == findDescendant(ns, seq[i], nm)
         IN  IF found # NULL THEN found
             ELSE findInChildren(ns, seq, nm, i + 1)

findDescendant(ns, id, nm) ==
    LET kids == ns[id].children
        k == FirstNamed(ns, kids, nm, 1)
    IN  IF k # 0 THEN kids[k] ELSE findInChildren(ns, kids, nm, 1)

\* Scene::findNode
findNodeMutRootOnly(ns, root, nm) == IF ns[root].name = nm THEN root ELSE NULL

findNode(ns, root, nm) ==
    IF ns[root].name = nm THEN root ELSE findDescendant(ns, root, nm)

\* Scene::generateUniqueName: append _1, _2, ... until no node has the name.
RECURSIVE probeName(_, _, _, _)
probeName(ns, root, baseName, suffix) ==
    LET candidate == baseName \o <<suffix>>
    IN  IF findNode(ns, root, candidate) = NULL THEN candidate
        ELSE probeName(ns, root, baseName, suffix + 1)

generateUniqueNameMutNoProbe(ns, root, baseName) == baseName

generateUniqueName(ns, root, baseName) ==
    IF findNode(ns, root, baseName) = NULL THEN baseName
    ELSE probeName(ns, root, baseName, 1)

\* The node and everything below it (what ~SceneNode destroys).
RECURSIVE Subtree(_, _)
Subtree(ns, id) ==
    {id} \cup UNION {Subtree(ns, ns[id].children[i]) : i \in DOMAIN ns[id].children}

\* SceneNode::addChild: set the back-reference, append to the child list.
addChildMutNoBackReference(ns, parentId, childId) ==
    [ns EXCEPT ![parentId].children = Append(@, childId)]

addChild(ns, parentId, childId) ==
    [ns EXCEPT ![childId].parent = parentId,
               ![parentId].children = Append(@, childId)]

\* SceneNode::removeChild: detach the first direct child with that name.
removeChild(ns, parentId, childName) ==
    LET kids == ns[parentId].children
        k == FirstNamed(ns, kids, childName, 1)
    IN  IF k = 0 THEN ns
        ELSE [ns EXCEPT ![kids[k]].parent = NULL,
                        ![parentId].children = SubSeq(kids, 1, k - 1) \o SubSeq(kids, k + 1, Len(kids))]

\* delete node: the node and its owned children stop existing.
Destroy(ns, id) ==
    LET gone == Subtree(ns, id)
    IN  [n \in (DOMAIN ns) \ gone |-> ns[n]]

\* Writing node->selected through a pointer: a pointer to a destroyed
\* node reaches no live node.
SetSelectedMutOnlySet(ns, id, flag) ==
    IF id \in DOMAIN ns /\ flag THEN [ns EXCEPT ![id].selected = TRUE] ELSE ns

SetSelected(ns, id, flag) ==
    IF id \in DOMAIN ns THEN [ns EXCEPT ![id].selected = flag] ELSE ns

\* What a Scene call leaves for its caller: the call, its return value,
\* and for deleteNode the name asked for, the node found for it and
\* whether that node was the selected one when the call started.
Ret(op, val) ==
    [op |-> op, val |-> val, arg |-> EmptyName, node |-> NULL, wasSelected |-> FALSE]

\* ------------------------------------------------------------------------
\* Scene: operations
\* ------------------------------------------------------------------------
SceneInit ==
    /\ nodes = (1 :> NewNode(RootName, NoModel))
    /\ rootNode = 1
    /\ selectedNode = NULL
    /\ loadedModels = {}
    /\ ret = Ret("Scene", NULL)
    /\ camera = InitialCamera

\* What a Scene::loadModel call was given and what it returned.
RetLoad(objPath, val) == [op |-> "loadModel", val |-> val, arg |-> objPath]

\* Scene::loadModel gives up: the path is not in the registry and the Model
\* constructed from it reports no vertex.
loadRejectedMutNever(objPath, registry) == FALSE

loadRejected(objPath, registry) == objPath \notin registry /\ FileVerts(objPath) = 0

\* Scene::loadModel(objPath, nodeName)
Scene_loadModel(objPath, nodeName) ==
    IF loadRejected(objPath, loadedModels)
    THEN /\ ret' = RetLoad(objPath, NULL)
         /\ UNCHANGED <<nodes, rootNode, selectedNode, loadedModels>>
    ELSE /\ Cardinality(Live) < MaxNodes
         /\ \E id \in NewIds :
              LET base == IF nodeName = EmptyName
                          THEN extractModelName(objPath) ELSE nodeName
                  finalName == generateUniqueName(nodes, rootNode, base)
                  withNode == (id :> NewNode(finalName, objPath)) @@ nodes
              IN  /\ nodes' = addChild(withNode, rootNode, id)
                  /\ ret' = RetLoad(objPath, id)
         /\ loadedModels' = loadedModels \cup {objPath}
         /\ UNCHANGED <<rootNode, selectedNode>>

\* Scene::createEmptyNode(nodeName)
Scene_createEmptyNode(nodeName) ==
    /\ Cardinality(Live) < MaxNodes
    /\ \E id \in NewIds :
         LET base == IF nodeName = EmptyName THEN <<"Empty">> ELSE nodeName
             finalName == generateUniqueName(nodes, rootNode, base)
             withNode == (id :> NewNode(finalName, NoModel)) @@ nodes
         IN  /\ nodes' = addChild(withNode, rootNode, id)
             /\ ret' = Ret("createEmptyNode", id)
    /\ UNCHANGED <<rootNode, selectedNode, loadedModels>>

\* Scene::deleteNode(nodeName)
deleteNodeSelectionMutKeep(sel, node) == sel

deleteNodeSelection(sel, node) == IF sel = node THEN NULL ELSE sel

deleteNodeReturnMutTrue(refused) == TRUE

deleteNodeReturn(refused) == ~refused

deleteNodeRefused(nodeName, node) ==
    \/ nodeName = RootName
    \/ node = NULL
    \/ nodes[node].parent = NULL

Scene_deleteNode(nodeName) ==
    LET node == findNode(nodes, rootNode, nodeName)
        refused == deleteNodeRefused(nodeName, node)
    IN  /\ ret' = [op |-> "deleteNode", val |-> deleteNodeReturn(refused),
                    arg |-> nodeName, node |-> node,
                    wasSelected |-> (node # NULL /\ selectedNode = node)]
        /\ IF refused
           THEN UNCHANGED <<nodes, rootNode, selectedNode, loadedModels>>
           ELSE /\ selectedNode' = deleteNodeSelection(selectedNode, node)
                /\ nodes' = Destroy(removeChild(nodes, nodes[node].parent, nodeName), node)
                /\ UNCHANGED <<rootNode, loadedModels>>

\* Scene::selectNode(SceneNode *node)
Scene_selectNode(node) ==
    /\ nodes' = SetSelected(SetSelected(nodes, selectedNode, FALSE), node, TRUE)
    /\ selectedNode' = node
    /\ ret' = Ret("selectNode", node)
    /\ UNCHANGED <<rootNode, loadedModels>>

\* Scene::selectNode(const std::string &nodeName)
Scene_selectNodeByName(nodeName) ==
    Scene_selectNode(findNode(nodes, rootNode, nodeName))

\* Scene::clearSelection
Scene_clearSelection ==
    /\ selectedNode # NULL
    /\ nodes' = SetSelected(nodes, selectedNode, FALSE)
    /\ selectedNode' = NULL
    /\ ret' = Ret("clearSelection", NULL)
    /\ UNCHANGED <<rootNode, loadedModels>>

\* Scene::clear: a new root is made before the old tree is released.
Scene_clear ==
    /\ \E id \in NewIds :
         /\ nodes' = (id :> NewNode(RootName, NoModel))
         /\ rootNode' = id
    /\ selectedNode' = NULL
    /\ loadedModels' = {}
    /\ ret' = Ret("clear", NULL)

SceneNext ==
    /\ \/ \E p \in Paths : Scene_loadModel(p, EmptyName)
       \/ \E nm \in {RootName, <<"a">>} : Scene_createEmptyNode(nm)
       \/ \E nm \in {RootName, <<"a">>, <<"a", 1>>, <<"Root", 1>>} : Scene_deleteNode(nm)
       \/ \E n \in Live \cup {NULL} : Scene_selectNode(n)
       \/ \E nm \in {<<"a">>, <<"b">>} : Scene_selectNodeByName(nm)
       \/ Scene_clearSelection
       \/ Scene_clear
    /\ UNCHANGED <<camera, rtVars, engineVars, frameVars, restVars, bvhVars>>

\* ------------------------------------------------------------------------
\* Scene graph built by hand: SceneNode::addChild and removeChild called on
\* any node, next to the Scene calls that select and delete by name
\* ------------------------------------------------------------------------
\* SceneNode::addChild(child) on the node parentId, which may be in the
\* scene or a node removeChild handed back.  The caller passes the
\* unique_ptr of a node it has just made, as every caller in the program
\* does.
SceneNode_addChild(parentId, nodeName) ==
    /\ parentId \in Live
    /\ Cardinality(Live) < MaxNodes
    /\ \E childId \in NewIds :
          /\ nodes' = addChild((childId :> NewNode(nodeName, NoModel)) @@ nodes,
                               parentId, childId)
          /\ ret' = [Ret("addChild", childId) EXCEPT !.node = parentId]
    /\ UNCHANGED <<rootNode, selectedNode, loadedModels>>

\* SceneNode::removeChild(childName) on the node parentId: the first direct
\* child of that name is handed back, nullptr when there is none.
SceneNode_removeChild(parentId, childName) ==
    /\ parentId \in Live
    /\ nodes' = removeChild(nodes, parentId, childName)
    /\ LET kids == nodes[parentId].children
           k == FirstNamed(nodes, kids, childName, 1)
       IN  ret' = [Ret("removeChild", IF k = 0 THEN NULL ELSE kids[k])
                       EXCEPT !.arg = childName, !.node = parentId]
    /\ UNCHANGED <<rootNode, selectedNode, loadedModels>>

GraphNext ==
    /\ \/ \E p \in Live, nm \in {<<"a">>, <<"b">>} : SceneNode_addChild(p, nm)
       \/ \E p \in Live, nm \in {<<"a">>, <<"b">>} : SceneNode_removeChild(p, nm)
       \/ \E nm \in {<<"a">>, <<"b">>} : Scene_selectNodeByName(nm)
       \/ \E nm \in {<<"a">>, <<"b">>} : Scene_deleteNode(nm)
    /\ UNCHANGED <<camera, rtVars, engineVars, frameVars, restVars, bvhVars>>

\* ------------------------------------------------------------------------
\* RealtimeRayTracer: values
\* ------------------------------------------------------------------------
rt_width == RenderWidth \div 2
rt_height == RenderHeight \div 2

RtPixels == 0..(rt_width * rt_height - 1)
MainPixels == 0..(RenderWidth * RenderHeight - 1)

Black == 0             \* what TGAImage::clear leaves
\* Colours are one 8-bit channel (green); the three channels are mixed alike.
HitColor == 251        \* a traced pixel whose ray gathered light
OverlayColor == 50     \* TGAColor(0, 50, 0)
BoundaryColor == 100   \* TGAColor(100, 100, 0)

\* Tile times fed by the clock, in milliseconds.
TileTimes == {0, 5}
target_tile_time == 2
AverageWindow == 60
AverageUnit == Pow2(10)
InitialAverage == [n |-> 1667, d |-> 100]

InitialQuality == 2
MinQuality == 1
MaxQuality == 4

MinOf(a, b) == IF a < b THEN a ELSE b
MaxOf(a, b) == IF a > b THEN a ELSE b

RECURSIVE Gcd(_, _)
Gcd(a, b) == IF b = 0 THEN a ELSE Gcd(b, a % b)

Frac(n, d) == LET g == Gcd(n, d) IN [n |-> n \div g, d |-> d \div g]

\* RealtimeRayTracer::update_quality_settings, the table
QualityTable(q) ==
    CASE q = 1 -> [samples_per_pixel |-> 1, max_depth |-> 2, tile_size |-> 32]
      [] q = 2 -> [samples_per_pixel |-> 1, max_depth |-> 3, tile_size |-> 16]
      [] q = 3 -> [samples_per_pixel |-> 2, max_depth |-> 4, tile_size |-> 8]
      [] q = 4 -> [samples_per_pixel |-> 4, max_depth |-> 6, tile_size |-> 8]

TileCountMutFloor(extent, ts) == MaxOf(extent \div ts, 1)

TileCount(extent, ts) == (extent + ts - 1) \div ts

ClearedRt == [p \in RtPixels |-> Black]
ClearedOverlay == [p \in MainPixels |-> Black]

\* TGAImage::clear on the Engine framebuffer
ClearedFramebuffer == [p \in MainPixels |-> Black]

\* RealtimeRayTracer::blend_strength(0.7f), in tenths
InitialBlendStrength == 7

\* SceneToRayTracer::convert_scene: one entry per node that has a model,
\* carrying the node's cached world transform.
convert_scene(ns) ==
    {[node |-> n, transform |-> ns[n].worldTransform] :
        n \in {m \in DOMAIN ns : ns[m].model # NoModel}}

RectPixels(r) ==
    {y * rt_width + x : x \in r.start_x..(r.end_x - 1), y \in r.start_y..(r.end_y - 1)}

\* RealtimeRayTracer::ray_trace_tile_enhanced, with ray_color for the primary
\* ray of each pixel: black when the ray hits nothing; a mesh at world
\* position p fills the pixel columns from p on.
ray_trace_tile_enhanced(fb, r, w) ==
    [p \in RtPixels |->
        IF p \notin RectPixels(r) THEN fb[p]
        ELSE IF \E tri \in w : p % rt_width >= tri.transform.position
             THEN HitColor ELSE Black]

\* RealtimeRayTracer::update_progress_overlay
update_progress_overlay(ov, r, boundaries) ==
    LET main_start_x == (r.start_x * RenderWidth) \div rt_width
        main_start_y == (r.start_y * RenderHeight) \div rt_height
        main_end_x == (r.end_x * RenderWidth) \div rt_width
        main_end_y == (r.end_y * RenderHeight) \div rt_height
        inside(x, y) == /\ x >= main_start_x /\ x < main_end_x
                        /\ y >= main_start_y /\ y < main_end_y
                        /\ x >= 0 /\ x < RenderWidth /\ y >= 0 /\ y < RenderHeight
        onEdge(x, y) == \/ y = main_start_y \/ y = main_end_y - 1
                        \/ x = main_start_x \/ x = main_end_x - 1
    IN  [p \in MainPixels |->
            LET x == p % RenderWidth
                y == p \div RenderWidth
            IN  IF ~inside(x, y) THEN ov[p]
                ELSE IF boundaries /\ onEdge(x, y) THEN BoundaryColor
                ELSE OverlayColor]

\* RealtimeRayTracer::advance_tile
advance_tileMutColumnMajor(cx, cy, tx, ty) ==
    IF cy + 1 < ty THEN [x |-> cx, y |-> cy + 1]
    ELSE IF cx + 1 < tx THEN [x |-> cx + 1, y |-> 0]
    ELSE [x |-> 0, y |-> 0]

advance_tileMutNoStartOver(cx, cy, tx, ty) ==
    IF cx + 1 < tx THEN [x |-> cx + 1, y |-> cy] ELSE [x |-> 0, y |-> cy + 1]

advance_tile(cx, cy, tx, ty) ==
    IF cx + 1 < tx THEN [x |-> cx + 1, y |-> cy]
    ELSE IF cy + 1 < ty THEN [x |-> 0, y |-> cy + 1]
    ELSE [x |-> 0, y |-> 0]

\* RealtimeRayTracer::update_performance_stats
update_performance_stats(avg, samples, measured) ==
    LET m == MinOf(AverageWindow, samples)
    IN  Frac(avg.n * (m - 1) + measured * avg.d, avg.d * m)

\* RealtimeRayTracer::adjust_quality_based_on_performance: the level the
\* controller moves to.
TooSlowMutAtTarget(avg) == avg.n > target_tile_time * avg.d

TooSlow(avg) == avg.n > target_tile_time * 2 * avg.d

FastEnough(avg) == 2 * avg.n < target_tile_time * avg.d

adjust_qualityMutNoDeadZone(avg, q) ==
    IF TooSlow(avg) /\ q > MinQuality THEN q - 1
    ELSE IF q < MaxQuality THEN q + 1
    ELSE q

adjust_quality(avg, q) ==
    IF TooSlow(avg) /\ q > MinQuality THEN q - 1
    ELSE IF FastEnough(avg) /\ q < MaxQuality THEN q + 1
    ELSE q

\* RealtimeRayTracer::reset_tiles, on the overlay
reset_overlayMutKeep(ov, show) == ov

reset_overlay(ov, show) == IF show THEN ClearedOverlay ELSE ov

\* ------------------------------------------------------------------------
\* RealtimeRayTracer: operations
\* ------------------------------------------------------------------------
NewPass(tx, ty) == [calls |-> 0, written |-> {}, total |-> tx * ty, clean |-> TRUE]

RTInit ==
    /\ is_active = FALSE
    /\ quality_level = InitialQuality
    /\ tile_size = QualityTable(InitialQuality).tile_size
    /\ current_tile_x = 0
    /\ current_tile_y = 0
    /\ total_tiles_x = TileCount(rt_width, QualityTable(InitialQuality).tile_size)
    /\ total_tiles_y = TileCount(rt_height, QualityTable(InitialQuality).tile_size)
    /\ rt_cam = [samples_per_pixel |-> QualityTable(InitialQuality).samples_per_pixel,
                 max_depth |-> QualityTable(InitialQuality).max_depth]
    /\ rt_framebuffer = ClearedRt
    /\ progress_overlay = ClearedOverlay
    /\ world = {}
    /\ world_needs_update = TRUE
    /\ last_camera_position = 0
    /\ show_progress_overlay = TRUE
    /\ adaptive_quality = FALSE
    /\ show_tile_boundaries = FALSE
    /\ average_frame_time = InitialAverage
    /\ performance_samples = 0
    /\ tile_time = 0
    /\ pass = NewPass(TileCount(rt_width, QualityTable(InitialQuality).tile_size),
                      TileCount(rt_height, QualityTable(InitialQuality).tile_size))

\* RealtimeRayTracer::reset_tiles
reset_tiles ==
    /\ current_tile_x' = 0
    /\ current_tile_y' = 0
    /\ rt_framebuffer' = ClearedRt
    /\ progress_overlay' = reset_overlay(progress_overlay, show_progress_overlay)

\* update_quality_settings for the level q, then reset_tiles
SetQuality(q) ==
    /\ quality_level' = q
    /\ rt_cam' = [samples_per_pixel |-> QualityTable(q).samples_per_pixel,
                  max_depth |-> QualityTable(q).max_depth]
    /\ tile_size' = QualityTable(q).tile_size
    /\ total_tiles_x' = TileCount(rt_width, QualityTable(q).tile_size)
    /\ total_tiles_y' = TileCount(rt_height, QualityTable(q).tile_size)
    /\ reset_tiles
    /\ pass' = NewPass(TileCount(rt_width, QualityTable(q).tile_size),
                       TileCount(rt_height, QualityTable(q).tile_size))

\* RealtimeRayTracer::toggle
toggle ==
    /\ is_active' = ~is_active
    /\ IF ~is_active
       THEN /\ reset_tiles
            /\ UNCHANGED <<tile_size, total_tiles_x, total_tiles_y>>
       ELSE UNCHANGED <<tileVars, bufferVars>>
    /\ pass' = NewPass(total_tiles_x, total_tiles_y)
    /\ UNCHANGED <<quality_level, rt_cam, world, world_needs_update,
                   last_camera_position, flagVars, statVars>>

increase_qualityMutNoUpdate ==
    /\ quality_level < MaxQuality
    /\ quality_level' = quality_level + 1
    /\ reset_tiles
    /\ UNCHANGED <<rt_cam, tile_size, total_tiles_x, total_tiles_y, pass, is_active, world,
                   world_needs_update, last_camera_position, flagVars, statVars>>

\* RealtimeRayTracer::increase_quality
increase_quality ==
    /\ quality_level < MaxQuality
    /\ SetQuality(quality_level + 1)
    /\ UNCHANGED <<is_active, world, world_needs_update, last_camera_position,
                   flagVars, statVars>>

\* RealtimeRayTracer::decrease_quality
decrease_quality ==
    /\ quality_level > MinQuality
    /\ SetQuality(quality_level - 1)
    /\ UNCHANGED <<is_active, world, world_needs_update, last_camera_position,
                   flagVars, statVars>>

\* RealtimeRayTracer::toggle_progress_overlay
toggle_progress_overlay ==
    /\ show_progress_overlay' = ~show_progress_overlay
    /\ progress_overlay' = IF show_progress_overlay THEN ClearedOverlay
                           ELSE progress_overlay
    /\ UNCHANGED <<is_active, quality_level, tileVars, rt_cam, rt_framebuffer, world,
                   world_needs_update, last_camera_position, adaptive_quality,
                   show_tile_boundaries, statVars, pass>>

\* RealtimeRayTracer::toggle_adaptive_quality
toggle_adaptive_quality ==
    /\ adaptive_quality' = ~adaptive_quality
    /\ UNCHANGED <<is_active, quality_level, tileVars, rt_cam, bufferVars, world,
                   world_needs_update, last_camera_position, show_progress_overlay,
                   show_tile_boundaries, statVars, pass>>

\* RealtimeRayTracer::toggle_tile_boundaries
toggle_tile_boundaries ==
    /\ show_tile_boundaries' = ~show_tile_boundaries
    /\ UNCHANGED <<is_active, quality_level, tileVars, rt_cam, bufferVars, world,
                   world_needs_update, last_camera_position, show_progress_overlay,
                   adaptive_quality, statVars, pass>>

\* RealtimeRayTracer::update_scene(scene)
update_scene(ns) ==
    IF ~is_active
    THEN UNCHANGED <<current_tile_x, current_tile_y, bufferVars, last_camera_position,
                     pass, world, world_needs_update>>
    ELSE /\ IF Abs(camera - last_camera_position) > camera_move_threshold
            THEN /\ reset_tiles
                 /\ last_camera_position' = camera
                 /\ pass' = NewPass(total_tiles_x, total_tiles_y)
            ELSE UNCHANGED <<current_tile_x, current_tile_y, bufferVars,
                             last_camera_position, pass>>
         /\ IF world_needs_update
            THEN /\ world' = convert_scene(ns)
                 /\ world_needs_update' = FALSE
            ELSE UNCHANGED <<world, world_needs_update>>

\* RealtimeRayTracer::render_one_tile, with the time the clock measured and
\* what update_performance_stats makes of it: the count of timed tiles and
\* the average.
render_tile(measured, samples, avg) ==
    /\ is_active
    /\ LET r == [start_x |-> current_tile_x * tile_size,
                 start_y |-> current_tile_y * tile_size,
                 end_x |-> MinOf(current_tile_x * tile_size + tile_size, rt_width),
                 end_y |-> MinOf(current_tile_y * tile_size + tile_size, rt_height)]
           traced == current_tile_y < total_tiles_y
           fb == IF traced THEN ray_trace_tile_enhanced(rt_framebuffer, r, world)
                 ELSE rt_framebuffer
           ov == IF traced /\ show_progress_overlay
                 THEN update_progress_overlay(progress_overlay, r, show_tile_boundaries)
                 ELSE progress_overlay
           next == IF traced
                   THEN advance_tile(current_tile_x, current_tile_y,
                                     total_tiles_x, total_tiles_y)
                   ELSE [x |-> current_tile_x, y |-> current_tile_y]
           q == IF adaptive_quality THEN adjust_quality(avg, quality_level)
                ELSE quality_level
           began == IF pass.calls >= pass.total
                    THEN NewPass(total_tiles_x, total_tiles_y) ELSE pass
           counted == [began EXCEPT !.calls = @ + 1,
                                    !.written = IF traced THEN @ \cup RectPixels(r) ELSE @,
                                    !.clean = @ /\ q = quality_level]
       IN  /\ performance_samples' = samples
           /\ tile_time' = measured
           /\ average_frame_time' = avg
           /\ pass' = counted
           /\ IF q # quality_level
              THEN /\ quality_level' = q
                   /\ rt_cam' = [samples_per_pixel |-> QualityTable(q).samples_per_pixel,
                                 max_depth |-> QualityTable(q).max_depth]
                   /\ tile_size' = QualityTable(q).tile_size
                   /\ total_tiles_x' = TileCount(rt_width, QualityTable(q).tile_size)
                   /\ total_tiles_y' = TileCount(rt_height, QualityTable(q).tile_size)
                   /\ current_tile_x' = 0
                   /\ current_tile_y' = 0
                   /\ rt_framebuffer' = ClearedRt
                   /\ progress_overlay' = reset_overlay(ov, show_progress_overlay)
              ELSE /\ current_tile_x' = next.x
                   /\ current_tile_y' = next.y
                   /\ rt_framebuffer' = fb
                   /\ progress_overlay' = ov
                   /\ UNCHANGED <<quality_level, rt_cam, tile_size,
                                  total_tiles_x, total_tiles_y>>
    /\ UNCHANGED <<is_active, world, world_needs_update, last_camera_position, flagVars>>

\* render_one_tile with the average carried as the exact value of the
\* formula: what the specifications that time a few tiles follow.
render_one_tile(measured) ==
    render_tile(measured, performance_samples + 1,
                update_performance_stats(average_frame_time, performance_samples + 1, measured))

\* average_frame_time is a float: what is stored is the result rounded.  The
\* rounding is followed at a resolution of 1/AverageUnit ms.
storedAverage(avg) == Frac((2 * avg.n * AverageUnit + avg.d) \div (2 * avg.d), AverageUnit)

\* performance_samples++ in a run without end.  The count is only read
\* through std::min(60, performance_samples): past the window, what is kept
\* of it is that it has changed.
countTile(n) == IF n > AverageWindow THEN AverageWindow ELSE n + 1

\* render_one_tile on a machine whose tile times depend on the quality level
\* alone, run for as long as the tracer is on.
render_timed_tile ==
    LET samples == countTile(performance_samples)
    IN  /\ render_tile(tile_clock[quality_level], samples,
                       storedAverage(update_performance_stats(average_frame_time, samples,
                                                              tile_clock[quality_level])))
        /\ UNCHANGED tile_clock

\* RealtimeRayTracer::mark_scene_dirty
mark_scene_dirty ==
    /\ world_needs_update' = TRUE
    /\ reset_tiles
    /\ pass' = NewPass(total_tiles_x, total_tiles_y)
    /\ UNCHANGED <<is_active, quality_level, tile_size, total_tiles_x, total_tiles_y,
                   rt_cam, world, last_camera_position, flagVars, statVars>>

\* ------------------------------------------------------------------------
\* rt_bvh and rt_hittable_list: values
\* ------------------------------------------------------------------------
\* A number is the rational n/d (d = 0: +infinity) plus e half-paddings
\* of compute_bounds (padding 1e-6), which are smaller than any gap between
\* two rationals of the model.
Num(n, d, e) == [n |-> n, d |-> d, e |-> e]

Rational(n, d) == LET f == Frac(n, d) IN Num(f.n, f.d, 0)

Less(a, b) ==
    \/ a.n * b.d < b.n * a.d
    \/ a.n * b.d = b.n * a.d /\ a.e < b.e

\* std::min(a, b) and std::max(a, b)
NumMin(a, b) == IF Less(b, a) THEN b ELSE a
NumMax(a, b) == IF Less(a, b) THEN b ELSE a

NumSub(a, b) == Num(a.n * b.d - b.n * a.d, a.d * b.d, a.e - b.e)

Axes == 1..3

VSub(u, v) == <<u[1] - v[1], u[2] - v[2], u[3] - v[3]>>
dot(u, v) == u[1] * v[1] + u[2] * v[2] + u[3] * v[3]
cross(u, v) ==
    <<u[2] * v[3] - u[3] * v[2], u[3] * v[1] - u[1] * v[3], u[1] * v[2] - u[2] * v[1]>>

\* An rt_hit_record as far as the comparison needs it; t is only
\* meaningful on a hit.
NoHit == [hit |-> FALSE, t |-> Num(0, 1, 0)]
\* ------------------------------------------------------------------------
\* rt_bvh and rt_hittable_list: helpers
\* ------------------------------------------------------------------------
\* rt_triangle::hit (Moeller-Trumbore): u, v and t are un/a, vn/a and tn/a;
\* |a| < EPSILON only for a = 0 on integer coordinates.
rt_triangle_hit(tri, r, t_min, t_max) ==
    LET edge1 == VSub(tri[2], tri[1])
        edge2 == VSub(tri[3], tri[1])
        h == cross(r.direction, edge2)
        a == dot(edge1, h)
        sgn == IF a < 0 THEN -1 ELSE 1
        ss == VSub(r.origin, tri[1])
        un == sgn * dot(ss, h)
        q == cross(ss, edge1)
        vn == sgn * dot(r.direction, q)
        tn == sgn * dot(edge2, q)
        den == sgn * a
    IN  IF a = 0 THEN NoHit
        ELSE IF un < 0 \/ un > den THEN NoHit
        ELSE IF vn < 0 \/ un + vn > den THEN NoHit
        ELSE LET t == IF tn < 0 THEN Num(-Rational(-tn, den).n, Rational(-tn, den).d, 0)
                      ELSE Rational(tn, den)
             IN  IF Less(t, t_min) \/ Less(t_max, t) THEN NoHit ELSE [hit |-> TRUE, t |-> t]

\* rt_bvh::compute_bounds for a triangle: an axis with no extent is padded
\* by half the padding on each side.
compute_bounds(tri) ==
    LET lo(a) == MinOf(tri[1][a], MinOf(tri[2][a], tri[3][a]))
        hi(a) == MaxOf(tri[1][a], MaxOf(tri[2][a], tri[3][a]))
        flat(a) == hi(a) - lo(a) = 0
    IN  [min |-> [a \in Axes |-> Num(lo(a), 1, IF flat(a) THEN -1 ELSE 0)],
         max |-> [a \in Axes |-> Num(hi(a), 1, IF flat(a) THEN 1 ELSE 0)]]

\* rt_aabb::longest_axis
longest_axis(box) ==
    LET x == NumSub(box.max[1], box.min[1])
        y == NumSub(box.max[2], box.min[2])
        z == NumSub(box.max[3], box.min[3])
    IN  IF Less(y, x) /\ Less(z, x) THEN 1
        ELSE IF Less(z, y) THEN 2
        ELSE 3

\* (bound - origin[a]) / direction[a]
SlabT(bound, r, a) ==
    LET dir == r.direction[a]
        sgn == IF dir < 0 THEN -1 ELSE 1
        n == (bound.n - r.origin[a]) * sgn
        f == IF n < 0 THEN [n |-> -Frac(-n, Abs(dir)).n, d |-> Frac(-n, Abs(dir)).d]
             ELSE Frac(n, Abs(dir))
    IN  Num(f.n, f.d, bound.e * sgn)

\* rt_aabb::hit: "if (t_max <= t_min) return false", then the loop from
\* axis a on
RECURSIVE rt_aabb_hit(_, _, _, _, _)
rt_aabb_hit(box, r, a, t_min, t_max) ==
    IF a > 3 THEN TRUE
    ELSE LET ta == SlabT(box.min[a], r, a)
             tb == SlabT(box.max[a], r, a)
             t0 == NumMin(ta, tb)
             t1 == NumMax(ta, tb)
             lo == NumMax(t0, t_min)
             hi == NumMin(t1, t_max)
         IN  IF ~Less(lo, hi) THEN FALSE
             ELSE rt_aabb_hit(box, r, a + 1, lo, hi)

\* The bounds of objs[1..n] folded with rt_aabb::combine (build_tree's loop).
RECURSIVE BoundsOf(_, _)
BoundsOf(objs, n) ==
    IF n = 1 THEN compute_bounds(objs[1])
    ELSE LET box0 == BoundsOf(objs, n - 1)
             box1 == compute_bounds(objs[n])
         IN  [min |-> [a \in Axes |-> NumMin(box0.min[a], box1.min[a])],
              max |-> [a \in Axes |-> NumMax(box0.max[a], box1.max[a])]]

\* The orders std::sort may leave objs in: every permutation in which no
\* element comes after one it compares less than.
SortedOrders(objs, axis) ==
    LET n == Len(objs)
        key(o) == compute_bounds(o).min[axis]
        perms == {f \in [1..n -> 1..n] : \A i, j \in 1..n : i # j => f[i] # f[j]}
        orders == {[i \in 1..n |-> objs[f[i]]] : f \in perms}
    IN  {o \in orders : \A i, j \in 1..n : i < j => ~Less(key(o[j]), key(o[i]))}

\* rt_bvh::build_tree over a range holding objs: the trees it may build.
RECURSIVE build_tree(_)
build_tree(objs) ==
    IF Len(objs) = 1
    THEN {[leaf |-> TRUE, leaf_object |-> objs[1], bounds |-> compute_bounds(objs[1])]}
    ELSE LET bounds == BoundsOf(objs, Len(objs))
             axis == longest_axis(bounds)
             mid == Len(objs) \div 2
         IN  UNION {
               {[leaf |-> FALSE, bounds |-> bounds, left |-> l, right |-> rr] :
                   l \in build_tree(SubSeq(sorted, 1, mid)),
                   rr \in build_tree(SubSeq(sorted, mid + 1, Len(sorted)))} :
               sorted \in SortedOrders(objs, axis)}

\* The order build_tree leaves the object vector in: the leaves, left to
\* right.
RECURSIVE LeavesOf(_)
LeavesOf(node) ==
    IF node.leaf THEN <<node.leaf_object>>
    ELSE LeavesOf(node.left) \o LeavesOf(node.right)

\* rt_bvh::hit_node
RECURSIVE hit_node(_, _, _, _)
hit_node(node, r, t_min, t_max) ==
    IF ~rt_aabb_hit(node.bounds, r, 1, t_min, t_max) THEN NoHit
    ELSE IF node.leaf THEN rt_triangle_hit(node.leaf_object, r, t_min, t_max)
    ELSE LET hit_left == hit_node(node.left, r, t_min, t_max)
             closest_t == IF hit_left.hit THEN hit_left.t ELSE t_max
             hit_right == hit_node(node.right, r, t_min, closest_t)
         IN  IF hit_right.hit THEN hit_right ELSE hit_left

\* rt_hittable_list::hit, from object i on
RECURSIVE rt_hittable_list_hit(_, _, _, _, _, _)
rt_hittable_list_hit(objs, i, r, t_min, closest_so_far, rec) ==
    IF i > Len(objs) THEN rec
    ELSE LET temp_rec == rt_triangle_hit(objs[i], r, t_min, closest_so_far)
         IN  IF temp_rec.hit
             THEN rt_hittable_list_hit(objs, i + 1, r, t_min, temp_rec.t, temp_rec)
             ELSE rt_hittable_list_hit(objs, i + 1, r, t_min, closest_so_far, rec)

\* ------------------------------------------------------------------------
\* rt_bvh and rt_hittable_list: operations
\* ------------------------------------------------------------------------
BVHInit ==
    /\ objects = <<>>
    /\ bvh = [built |-> FALSE]
    /\ cast = [done |-> FALSE]

\* rt_hittable_list::clear, as convert_scene starts
rt_clear ==
    /\ objects # <<>>
    /\ objects' = <<>>
    /\ bvh' = [built |-> FALSE]
    /\ cast' = [done |-> FALSE]

\* rt_hittable_list::add, while the scene is converted
rt_add(tri) ==
    /\ ~bvh.built
    /\ Len(objects) < MaxPrimitives
    /\ objects' = Append(objects, tri)
    /\ UNCHANGED <<bvh, cast>>

\* rt_hittable_list::build_bvh: the constructor sorts the list's own
\* vector while it builds the tree.
build_bvh ==
    /\ ~bvh.built
    /\ IF objects = <<>>
       THEN /\ bvh' = [built |-> TRUE, empty |-> TRUE]
            /\ UNCHANGED objects
       ELSE \E tree \in build_tree(objects) :
              /\ bvh' = [built |-> TRUE, empty |-> FALSE, root |-> tree]
              /\ objects' = LeavesOf(tree)
    /\ UNCHANGED cast

\* One ray cast against both structures.
cast_ray(r, t_min, t_max) ==
    /\ bvh.built
    /\ cast' = [done |-> TRUE, ray |-> r, t_min |-> t_min, t_max |-> t_max,
                bvh |-> IF bvh.empty THEN NoHit
                        ELSE hit_node(bvh.root, r, t_min, t_max),
                list |-> rt_hittable_list_hit(objects, 1, r, t_min, t_max, NoHit)]
    /\ UNCHANGED <<objects, bvh>>

\* The list and the tree under the calls a scene makes: triangles
\* <<v0, v1, v2>> are added, the tree is built, rays (no direction component
\* is zero) are cast with the interval (0.001, infinity) of ray_color or a
\* shorter one.
BVHNext ==
    /\ \/ rt_clear
       \/ \E tri \in {<<<<0, 0, 0>>, <<1, 0, 0>>, <<0, 1, 0>>>>,
                       <<<<0, 0, -1>>, <<4, 0, -1>>, <<0, 4, -1>>>>,
                       <<<<-1, -1, -2>>, <<3, 0, -2>>, <<0, 3, -3>>>>} : rt_add(tri)
       \/ build_bvh
       \/ \E o \in {<<0, -1, 1>>, <<0, 0, 1>>, <<1, 1, 1>>},
             d \in {<<1, 1, -1>>, <<1, 1, -2>>, <<-1, -1, -1>>},
             t_max \in {Num(1, 0, 0), Rational(3, 2)} :
            cast_ray([origin |-> o, direction |-> d], Rational(1, 1000), t_max)
    /\ UNCHANGED <<sceneVars, camera, rtVars, engineVars, frameVars, restVars>>

\* ------------------------------------------------------------------------
\* Two-pass shadow mapping (Engine::renderScene, DepthShader,
\* ShadowMappingShader), followed along one row of the shadow buffer.
\* Depths are in hundredths of the depth unit; light-space x of a camera
\* fragment is in halves of a pixel.
\* ------------------------------------------------------------------------
Bias == 4334             \* 43.34f
FloatMax == 100000000    \* std::numeric_limits<float>::max()
Gaps == {1000, Bias, Bias + 1, 9000}
ShadowedFactor == 3      \* 0.3f
LitFactor == 10          \* 0.3f + 0.7f

\* (int) of a float: truncation toward zero, here of a value in halves.
Trunc(h) == IF h >= 0 THEN h \div 2 ELSE 0 - ((0 - h) \div 2)

\* The light looks straight down at the scene, lookat(light.direction,
\* origin, up) with projection(0).  The rasterizer's z-buffers are cleared
\* to 0 before a pass, so the fragment it keeps is the one of larger depth:
\* depth grows toward the eye, and from the light the triangle, gap above
\* the ground, is the deeper value.
LightDepth(prim, scene) == IF prim = "triangle" THEN scene.ground + scene.gap ELSE scene.ground

\* The fragments triangle() produces in the light pass: the faces in model
\* order, each over the pixels it covers.
Pass1Fragments(scene) ==
    LET g == [i \in 1..ShadowWidth |->
                [prim |-> "ground", x |-> i - 1, z |-> LightDepth("ground", scene)]]
        t == [i \in 1..(scene.hi - scene.lo + 1) |->
                [prim |-> "triangle", x |-> scene.lo + i - 1, z |-> LightDepth("triangle", scene)]]
    IN  IF scene.first = "ground" THEN g \o t ELSE t \o g

\* The fragments of the camera pass, each already carried into the light's
\* screen space by uniform_Mshadow: the ground from one pixel left of the
\* buffer to one pixel right of it, the triangle over its footprint.
Pass2Fragments(scene) ==
    LET g == [i \in 1..(2 * ShadowWidth + 4) |->
                [prim |-> "ground", x |-> i - 3, z |-> LightDepth("ground", scene)]]
        t == [i \in 1..(2 * (scene.hi - scene.lo + 1)) |->
                [prim |-> "triangle", x |-> 2 * scene.lo + i - 1,
                 z |-> LightDepth("triangle", scene)]]
    IN  g \o t

\* Engine::Engine: shadowbuffer filled with numeric_limits<float>::max().
ShadersIdle ==
    /\ shadowbuffer = [x \in 0..(ShadowWidth - 1) |-> FloatMax]
    /\ tempZ = [x \in 0..(ShadowWidth - 1) |-> 0]
    /\ shadow_scene = [lo |-> 0, hi |-> 0, gap |-> 0, ground |-> 0, first |-> "ground",
                       test_first |-> FALSE]
    /\ shader_pc = [pass |-> 0, i |-> 1, seen |-> {}]
    /\ shade = <<>>

\* Engine::renderScene, PASS 1 up to the loop over the faces.
Engine_beginShadowPass ==
    /\ shader_pc.pass \in {0, 3}
    /\ shadowbuffer' = [x \in 0..(ShadowWidth - 1) |-> FloatMax]
    /\ tempZ' = [x \in 0..(ShadowWidth - 1) |-> 0]
    /\ shader_pc' = [pass |-> 1, i |-> 1, seen |-> {}]
    /\ shade' = <<>>
    /\ UNCHANGED shadow_scene

\* One fragment of the light pass: triangle() tests it against the pass's
\* z-buffer and runs DepthShader::fragment on it, which keeps the smaller
\* of the stored depth and p.z.
DepthShader_fragment ==
    /\ shader_pc.pass = 1
    /\ shader_pc.i <= Len(Pass1Fragments(shadow_scene))
    /\ LET f == Pass1Fragments(shadow_scene)[shader_pc.i]
           passes == f.z >= tempZ[f.x]
           called == passes \/ ~shadow_scene.test_first
       IN  /\ shadowbuffer' = IF called /\ f.x \in 0..(ShadowWidth - 1)
                                THEN [shadowbuffer EXCEPT ![f.x] = IF f.z < @ THEN f.z ELSE @]
                                ELSE shadowbuffer
           /\ tempZ' = IF passes THEN [tempZ EXCEPT ![f.x] = f.z] ELSE tempZ
           /\ shader_pc' = [shader_pc EXCEPT !.i = @ + 1,
                                              !.seen = IF called THEN @ \cup {[x |-> f.x, z |-> f.z]}
                                                       ELSE @]
    /\ UNCHANGED <<shadow_scene, shade>>

\* Engine::renderScene, PASS 2 up to the loop over the faces.
Engine_beginCameraPass ==
    /\ shader_pc.pass = 1
    /\ shader_pc.i > Len(Pass1Fragments(shadow_scene))
    /\ shader_pc' = [shader_pc EXCEPT !.pass = 2, !.i = 1]
    /\ UNCHANGED <<shadowbuffer, tempZ, shadow_scene, shade>>

\* float shadow of ShadowMappingShader::fragment, in tenths.  The bias is
\* below half an ulp of numeric_limits<float>::max(): added to an untouched
\* entry it leaves the entry as it is.
ShadowFactor(sb_x, sb_z, buf) ==
    LET shadow_x == Trunc(sb_x)
        biased == IF buf[shadow_x] = FloatMax THEN FloatMax ELSE buf[shadow_x] + Bias
    IN  IF shadow_x >= 0 /\ shadow_x < ShadowWidth
        THEN IF sb_z <= biased THEN LitFactor ELSE ShadowedFactor
        ELSE LitFactor

\* One fragment of the camera pass through ShadowMappingShader::fragment.
ShadowMappingShader_fragment ==
    /\ shader_pc.pass = 2
    /\ LET fs == Pass2Fragments(shadow_scene)
           f == fs[shader_pc.i]
       IN  /\ shade' = Append(shade, [prim |-> f.prim, x |-> f.x, z |-> f.z,
                                      shadow |-> ShadowFactor(f.x, f.z, shadowbuffer)])
           /\ shader_pc' = IF shader_pc.i = Len(fs)
                           THEN [shader_pc EXCEPT !.pass = 3]
                           ELSE [shader_pc EXCEPT !.i = @ + 1]
    /\ UNCHANGED <<shadowbuffer, tempZ, shadow_scene>>

ShadowNext ==
    /\ \/ Engine_beginShadowPass
       \/ DepthShader_fragment
       \/ Engine_beginCameraPass
       \/ ShadowMappingShader_fragment
    /\ UNCHANGED <<sceneVars, camera, rtVars, engineVars, frameVars, cameraVars, modelVars,
                   rayVars, conv, tile_clock, bvhVars>>

\* ------------------------------------------------------------------------
\* ray_color (RealtimeRayTracer::ray_color and rt_camera::ray_color): the
\* recursion, one step of the innermost call at a time.  Colours are one
\* channel, 0 is black.
\* ------------------------------------------------------------------------
NoRayCall == [d |-> 0, sky |-> 0, calls |-> 0, running |-> FALSE, value |-> 0]

RayIdle == ray_stack = <<>> /\ ray_call = NoRayCall

\* ray_color(r, rt_cam.max_depth) in the sample loop of the tile tracer, or
\* ray_color(r, max_depth, world) in rt_camera::render.  sky is what a ray
\* that hits nothing gets: black in the first, the gradient in the second.
trace_ray(d, sky) ==
    /\ ~ray_call.running
    /\ ray_stack' = <<[depth |-> d, st |-> "entered", attenuation |-> 0, val |-> 0]>>
    /\ ray_call' = [d |-> d, sky |-> sky, calls |-> 0, running |-> TRUE, value |-> 0]

depthExhaustedMutNegativeOnly(depth) == depth < 0

\* if (depth <= 0) return rt_color(0, 0, 0);
depthExhausted(depth) == depth <= 0

\* A call hands v back: to the caller waiting on it, which multiplies by its
\* attenuation and returns in turn, or to the sample loop.
Returned(callers, v) ==
    IF callers = <<>>
    THEN /\ ray_stack' = <<>>
         /\ ray_call' = [ray_call EXCEPT !.running = FALSE, !.value = v]
    ELSE /\ ray_stack' = [callers EXCEPT ![Len(callers)].st = "returning",
                                         ![Len(callers)].val = callers[Len(callers)].attenuation * v]
         /\ UNCHANGED ray_call

\* The innermost call goes on: it has just been entered and runs down to its
\* return or to the recursive call, whatever the BVH and the material
\* answer; or its recursive call has come back and it returns.
ray_color ==
    /\ ray_call.running
    /\ LET top == ray_stack[Len(ray_stack)]
           callers == SubSeq(ray_stack, 1, Len(ray_stack) - 1)
       IN  IF top.st = "returning" THEN Returned(callers, top.val)
           ELSE IF depthExhausted(top.depth) THEN Returned(callers, 0)
           ELSE \/ Returned(callers, ray_call.sky)          \* no hit
                \/ Returned(callers, 0)                     \* hit, scatter refuses
                \/ \E attenuation \in {0, 1} :              \* hit, scattered ray
                      /\ ray_stack' = Append([ray_stack EXCEPT ![Len(ray_stack)].st = "waiting",
                                                  ![Len(ray_stack)].attenuation = attenuation],
                                             [depth |-> top.depth - 1, st |-> "entered",
                                              attenuation |-> 0, val |-> 0])
                      /\ ray_call' = [ray_call EXCEPT !.calls = @ + 1]

RayNext ==
    /\ \/ \E d \in 0..MaxRayDepth, sky \in {0, 1} : trace_ray(d, sky)
       \/ ray_color
    /\ UNCHANGED <<sceneVars, camera, rtVars, engineVars, frameVars, cameraVars, modelVars,
                   shaderVars, conv, tile_clock, bvhVars>>

\* ------------------------------------------------------------------------
\* unified_math.h: Vec3f (float) and rt_vec3 (double).  A value is a whole
\* number of units; a float holds FloatBits significant bits of it, a
\* double DoubleBits.
\* ------------------------------------------------------------------------
DoubleBits == FloatBits + 3

NoConversion == [stage |-> "none", raster |-> <<0, 0, 0>>, rt |-> <<0, 0, 0>>, back |-> <<0, 0, 0>>]

ConvIdle == conv = NoConversion

\* The specifications that feed render_one_tile its times do not read the
\* machine's clock.
ClockUnread == tile_clock = [q \in MinQuality..MaxQuality |-> 0]

\* The value of bits significant bits nearest to the whole number x, ties to
\* even.
RECURSIVE ulpOf(_, _, _)
ulpOf(bits, m, q) == IF m < Pow2(bits) * q THEN q ELSE ulpOf(bits, m, 2 * q)

roundTo(bits, x) ==
    LET m == Abs(x)
        q == ulpOf(bits, m, 1)
        lo == (m \div q) * q
        r == m - lo
        mag == IF 2 * r < q THEN lo
               ELSE IF 2 * r > q THEN lo + q
               ELSE IF (lo \div q) % 2 = 0 THEN lo
               ELSE lo + q
    IN  IF x < 0 THEN 0 - mag ELSE mag

raster_to_rtMutNarrow(v) == [i \in 1..3 |-> roundTo(FloatBits - 1, v[i])]

\* raster_to_rt: static_cast<double> of each component.
raster_to_rt(v) == [i \in 1..3 |-> roundTo(DoubleBits, v[i])]

\* rt_to_raster: static_cast<float> of each component.
rt_to_raster(v) == [i \in 1..3 |-> roundTo(FloatBits, v[i])]

\* The Vec3f values with components up to MaxCoord.
RasterVectors ==
    LET floats == {roundTo(FloatBits, n) : n \in (0 - MaxCoord)..MaxCoord}
    IN  [1..3 -> floats]

\* rt_vec3 rt_vec = raster_to_rt(raster_vec); made once, when the program
\* starts (test_math_integration).
Convert_raster_to_rt(v) ==
    /\ conv.stage = "none"
    /\ conv' = [stage |-> "rt", raster |-> v, rt |-> raster_to_rt(v), back |-> <<0, 0, 0>>]

\* Vec3f converted_back = rt_to_raster(rt_vec);
Convert_rt_to_raster ==
    /\ conv.stage = "rt"
    /\ conv' = [conv EXCEPT !.stage = "back", !.back = rt_to_raster(conv.rt)]

ConvNext ==
    /\ \/ \E v \in RasterVectors : Convert_raster_to_rt(v)
       \/ Convert_rt_to_raster
    /\ UNCHANGED <<sceneVars, camera, rtVars, engineVars, frameVars, cameraVars, modelVars,
                   shaderVars, rayVars, tile_clock, bvhVars>>

\* No blend shape, no Model call yet.
EmptyMap == [name \in {} |-> 0]
NoCall == [op |-> "Model", name |-> "", arg |-> 0]

\* Engine::Engine and Engine::init: no key held, a cleared framebuffer, the
\* CPU rasterizer in use, Engine::run about to poll events.
EngineConstructed ==
    /\ pc = "handleEvents"
    /\ keys = {}
    /\ framebuffer = ClearedFramebuffer
    /\ use_cuda_rendering = FALSE
    /\ blend_strength = InitialBlendStrength
    /\ frame = <<>>
    \* no Model is followed: Model::Model on a file that cannot be opened
    /\ verts_ = <<>>
    /\ originalVerts_ = <<>>
    /\ hasBackup_ = FALSE
    /\ blendShapes = EmptyMap
    /\ blendWeights = EmptyMap
    /\ model_call = NoCall
    /\ ShadersIdle /\ RayIdle /\ ConvIdle /\ ClockUnread

\* Floats that matter to the camera controls: lengths in units of 0.5,
\* angles in degrees, and NaN.
NaN == 0 - 1000
AnglePi == 180
MinDistance == 1       \* 0.5f
MaxDistance == 100     \* 50.0f

NoRoundTrip == [n |-> 0, eye |-> 0, target |-> 0]

\* The camera controls as src/Engine.cpp constructs them: orbit mode around
\* the origin. Scene::camera looks at the origin.
CameraControlsSet ==
    /\ orbitMode = TRUE
    /\ cameraDistance = InitialCamera
    /\ cameraRotationX = 0
    /\ cameraRotationY = 0
    /\ cameraTarget = 0
    /\ camera_target = 0
    /\ round_trip = NoRoundTrip

\* The Engine on a machine where initCudaRasterizer fails.
EngineInit == EngineConstructed /\ cuda_available = FALSE /\ CameraControlsSet

\* The ray tracer over a scene with one mesh under the root, as
\* Engine::loadModel leaves it.  The user moves the camera along one axis
\* (Engine::updateCamera writes camera.position).
RTNext ==
    \/ /\ \/ toggle
          \/ increase_quality
          \/ decrease_quality
          \/ toggle_progress_overlay
          \/ toggle_adaptive_quality
          \/ update_scene(nodes) /\ UNCHANGED <<is_active, quality_level, tile_size,
                                  total_tiles_x, total_tiles_y, rt_cam, flagVars, statVars>>
          \/ \E t \in TileTimes : performance_samples < MaxSamples /\ render_one_tile(t)
          \/ mark_scene_dirty
       /\ UNCHANGED <<sceneVars, camera, engineVars, frameVars, restVars, bvhVars>>
    \/ \E pos \in {0, 1, 2} :
         /\ pos # camera
         /\ camera' = pos
         /\ UNCHANGED <<sceneVars, rtVars, engineVars, frameVars, restVars, bvhVars>>

RTSpecInit ==
    /\ nodes = addChild((1 :> NewNode(RootName, NoModel)) @@ (2 :> NewNode(<<"a">>, "a.obj")), 1, 2)
    /\ rootNode = 1
    /\ selectedNode = NULL
    /\ loadedModels = {"a.obj"}
    /\ ret = Ret("Scene", NULL)
    /\ camera = InitialCamera
    /\ RTInit /\ EngineInit /\ BVHInit

SpecRT == RTSpecInit /\ [][RTNext]_vars

\* The quality controller on its own: a still camera, more timed tiles.
QualityNext ==
    /\ \/ toggle
       \/ increase_quality
       \/ decrease_quality
       \/ toggle_adaptive_quality
       \/ update_scene(nodes) /\ UNCHANGED <<is_active, quality_level, tile_size,
                                  total_tiles_x, total_tiles_y, rt_cam, flagVars, statVars>>
       \/ \E t \in TileTimes : performance_samples < MaxQualitySamples /\ render_one_tile(t)
    /\ UNCHANGED <<sceneVars, camera, engineVars, frameVars, restVars, bvhVars>>

SpecQuality == RTSpecInit /\ [][QualityNext]_vars

\* ------------------------------------------------------------------------
\* Engine: the frame loop (handleEvents, updateCamera, update, render,
\* present) over the scene and the scheduler
\* ------------------------------------------------------------------------
\* SceneNode::updateWorldTransform(parentWorld), children in list order;
\* SceneNode::updateTransformFromMatrix reads position and scale back from
\* the matrix (the scale as the norm of the column).
RECURSIVE updateWorldTransform(_, _, _)
RECURSIVE updateChildren(_, _, _, _)
updateChildren(ns, seq, i, worldMatrix) ==
    IF i > Len(seq) THEN ns
    ELSE updateChildren(updateWorldTransform(ns, seq[i], worldMatrix),
                        seq, i + 1, worldMatrix)

updateWorldTransform(ns, id, parentWorld) ==
    LET localMatrix == getMatrix(ns[id].localTransform)
        worldMatrix == MatMul(parentWorld, localMatrix)
        stored == [ns EXCEPT ![id].worldTransform =
                             [position |-> worldMatrix.p, scale |-> Abs(worldMatrix.s)]]
    IN  updateChildren(stored, ns[id].children, 1, worldMatrix)

\* Scene::updateAllTransforms
updateAllTransforms(ns, root) == updateWorldTransform(ns, root, Identity)

\* SceneNode::getWorldMatrix: the matrix of the cached world transform
getWorldMatrix(ns, id) == getMatrix(ns[id].worldTransform)

\* Scene::getAllMeshNodes: depth-first from the root, a node before its
\* children.
RECURSIVE collectMeshes(_, _)
RECURSIVE collectChildMeshes(_, _, _)
collectChildMeshes(ns, seq, i) ==
    IF i > Len(seq) THEN <<>>
    ELSE collectMeshes(ns, seq[i]) \o collectChildMeshes(ns, seq, i + 1)

collectMeshes(ns, id) ==
    (IF ns[id].model # NoModel THEN <<id>> ELSE <<>>)
        \o collectChildMeshes(ns, ns[id].children, 1)

\* Scene::getVisibleMeshNodes: depth-first from the root; a hidden node is
\* skipped together with everything under it.
RECURSIVE collectVisible(_, _)
RECURSIVE collectVisibleChildren(_, _, _)
collectVisibleChildren(ns, seq, i) ==
    IF i > Len(seq) THEN <<>>
    ELSE collectVisible(ns, seq[i]) \o collectVisibleChildren(ns, seq, i + 1)

collectVisible(ns, id) ==
    (IF ns[id].model # NoModel /\ ns[id].visible THEN <<id>> ELSE <<>>)
        \o (IF ns[id].visible THEN collectVisibleChildren(ns, ns[id].children, 1)
            ELSE <<>>)

\* The shaded colour the rasterizer gives a mesh pixel.
MeshColor == 128

\* Main framebuffer coordinate to ray-trace coordinate (nearest neighbour,
\* clamped), as blend_with_framebuffer maps it.
rt_x_of(x) == MaxOf(0, MinOf(rt_width - 1, (x * rt_width) \div RenderWidth))

\* Engine::renderScene: nothing is drawn without a visible mesh; otherwise
\* every visible mesh is drawn with getWorldMatrix, and covers the same
\* columns the ray tracer sees it in.
renderScene(fb, ns, root) ==
    LET visibleMeshes == collectVisible(ns, root)
        covered(x) == \E i \in DOMAIN visibleMeshes :
                         rt_x_of(x) >= getWorldMatrix(ns, visibleMeshes[i]).p
    IN  [p \in MainPixels |-> IF covered(p % RenderWidth) THEN MeshColor ELSE fb[p]]

\* The factor blend_with_framebuffer mixes with, in hundredths: the blend
\* strength, times 0.6 at quality level 1.
current_blendMutFixed(bs, q) == bs * 10

current_blend(bs, q) == IF q = 1 THEN bs * 6 ELSE bs * 10

\* RealtimeRayTracer::blend_with_framebuffer
blend_with_framebuffer(fb, active, rtfb, bs, q, showOverlay, overlay) ==
    IF ~active THEN fb
    ELSE [p \in MainPixels |->
            LET y == p \div RenderWidth
                rt_y == MaxOf(0, MinOf(rt_height - 1, (y * rt_height) \div RenderHeight))
                rt_color == rtfb[rt_y * rt_width + rt_x_of(p % RenderWidth)]
                cb == current_blend(bs, q)
                \* one channel, truncated as int(...) does
                mixed == IF rt_color > 0
                         THEN (rt_color * cb + fb[p] * (100 - cb)) \div 100
                         ELSE fb[p]
            IN  IF showOverlay /\ overlay[p] > 0
                THEN MinOf(255, mixed + overlay[p] \div 4)
                ELSE mixed]

\* The steps of Engine::render after the buffers are cleared: renderScene,
\* then the tile and the blend when the scheduler is enabled.
Engine_renderStepsMutTileFirst(passes, active) ==
    (IF active THEN <<"render_one_tile", "blend_with_framebuffer">> ELSE <<>>) \o passes

Engine_renderSteps(passes, active) ==
    passes \o (IF active THEN <<"render_one_tile", "blend_with_framebuffer">> ELSE <<>>)

\* The keys the model follows: Ctrl and Numpad 6 together, which move the
\* selected node along the axis.
ManipulationKeys == {"LCTRL+KP_6"}

\* Engine::loadModel: Scene::loadModel, then the new node is selected.
Engine_loadModel(objPath) ==
    IF objPath \notin loadedModels /\ FileVerts(objPath) = 0
    THEN /\ ret' = RetLoad(objPath, NULL)
         /\ UNCHANGED <<nodes, rootNode, selectedNode, loadedModels>>
    ELSE /\ Cardinality(Live) < MaxEngineNodes
         /\ \E id \in NewIds :
              LET finalName == generateUniqueName(nodes, rootNode,
                                                  extractModelName(objPath))
                  withNode == (id :> NewNode(finalName, objPath)) @@ nodes
                  loaded == addChild(withNode, rootNode, id)
              IN  /\ nodes' = SetSelected(SetSelected(loaded, selectedNode, FALSE),
                                          id, TRUE)
                  /\ selectedNode' = id
                  /\ ret' = Ret("selectNode", id)
         /\ loadedModels' = loadedModels \cup {objPath}
         /\ UNCHANGED rootNode

\* Engine::createEmptyNode: Scene::createEmptyNode, then the node is selected.
Engine_createEmptyNode ==
    /\ Cardinality(Live) < MaxEngineNodes
    /\ \E id \in NewIds :
         LET finalName == generateUniqueName(nodes, rootNode, <<"Empty">>)
             withNode == (id :> NewNode(finalName, NoModel)) @@ nodes
             created == addChild(withNode, rootNode, id)
         IN  /\ nodes' = SetSelected(SetSelected(created, selectedNode, FALSE), id, TRUE)
             /\ selectedNode' = id
             /\ ret' = Ret("selectNode", id)
    /\ UNCHANGED <<rootNode, loadedModels>>

\* Engine::selectNextObject
Engine_selectNextObject ==
    LET meshNodes == collectMeshes(nodes, rootNode)
        k == IF \E i \in DOMAIN meshNodes : meshNodes[i] = selectedNode
             THEN CHOOSE i \in DOMAIN meshNodes :
                      /\ meshNodes[i] = selectedNode
                      /\ \A j \in 1..(i - 1) : meshNodes[j] # selectedNode
             ELSE 0
    IN  /\ meshNodes # <<>>
        /\ Scene_selectNode(IF k = 0 \/ k = Len(meshNodes) THEN meshNodes[1]
                            ELSE meshNodes[k + 1])

\* Engine::deleteSelectedObject
Engine_deleteSelectedObject ==
    /\ selectedNode \in Live
    /\ nodes[selectedNode].name # RootName
    /\ Scene_deleteNode(nodes[selectedNode].name)

\* Engine::toggleRealtimeRayTracing: toggle, then mark_scene_dirty when the
\* scheduler is now enabled.
Engine_toggleRealtimeRayTracingMutResetOnOff ==
    /\ is_active' = ~is_active
    /\ reset_tiles
    /\ world_needs_update' = (world_needs_update \/ ~is_active)
    /\ pass' = NewPass(total_tiles_x, total_tiles_y)
    /\ UNCHANGED <<quality_level, tile_size, total_tiles_x, total_tiles_y, rt_cam,
                   world, last_camera_position, flagVars, statVars>>

Engine_toggleRealtimeRayTracing ==
    /\ is_active' = ~is_active
    /\ IF ~is_active
       THEN /\ reset_tiles
            /\ world_needs_update' = TRUE
            /\ UNCHANGED <<tile_size, total_tiles_x, total_tiles_y>>
       ELSE UNCHANGED <<tileVars, bufferVars, world_needs_update>>
    /\ pass' = NewPass(total_tiles_x, total_tiles_y)
    /\ UNCHANGED <<quality_level, rt_cam, world, last_camera_position,
                   flagVars, statVars>>

\* Engine::handleEvents, one polled event
Engine_handleEvent ==
    /\ pc = "handleEvents"
    /\ \/ /\ Engine_toggleRealtimeRayTracing
          /\ UNCHANGED <<sceneVars, keys>>
       \/ /\ toggle_tile_boundaries
          /\ UNCHANGED <<sceneVars, keys>>
       \/ /\ \E p \in Paths : Engine_loadModel(p)
          /\ UNCHANGED <<rtVars, keys>>
       \/ /\ Engine_createEmptyNode
          /\ UNCHANGED <<rtVars, keys>>
       \/ /\ Engine_selectNextObject
          /\ UNCHANGED <<rtVars, keys>>
       \/ /\ Engine_deleteSelectedObject
          /\ UNCHANGED <<rtVars, keys>>
       \/ /\ \E k \in ManipulationKeys : keys' = keys \cup {k} /\ keys' # keys
          /\ UNCHANGED <<sceneVars, rtVars>>
       \/ /\ \E k \in ManipulationKeys : keys' = keys \ {k} /\ keys' # keys
          /\ UNCHANGED <<sceneVars, rtVars>>
    /\ UNCHANGED <<pc, camera, frameVars>>

\* Engine::handleEvents returns: no event is left to poll.
Engine_eventsPolled ==
    /\ pc = "handleEvents"
    /\ pc' = "updateCamera"
    /\ UNCHANGED <<sceneVars, camera, rtVars, keys, frameVars>>

\* Engine::updateCamera: the camera stays or goes where the input takes it.
Engine_updateCamera ==
    /\ pc = "updateCamera"
    /\ \E pos \in {0, InitialCamera} : camera' = pos
    /\ pc' = "update"
    /\ UNCHANGED <<sceneVars, rtVars, keys, frameVars>>

\* Engine::moveSelectedObject
moveSelectedObject(ns, selected, delta) ==
    [ns EXCEPT ![selected].localTransform.position = @ + delta]

\* Engine::update: refresh the world transforms, let the scheduler look at
\* the scene, then apply the keyboard manipulation to the selected node.
Engine_update ==
    /\ pc = "update"
    /\ LET refreshed == updateAllTransforms(nodes, rootNode)
           moving == selectedNode \in Live /\ ManipulationKeys \subseteq keys
       IN  /\ moving => nodes[selectedNode].localTransform.position < MaxOffset
           /\ update_scene(refreshed)
           /\ nodes' = IF moving THEN moveSelectedObject(refreshed, selectedNode, 1)
                       ELSE refreshed
    /\ frame' = frame \o <<"updateAllTransforms">>
    /\ pc' = "render"
    /\ UNCHANGED <<rootNode, selectedNode, loadedModels, ret, camera, keys,
                   is_active, quality_level, tile_size, total_tiles_x, total_tiles_y,
                   rt_cam, flagVars, statVars, framebuffer, cuda_available,
                   use_cuda_rendering, blend_strength>>

\* Engine::render: the framebuffer is cleared, renderScene draws every
\* visible mesh with getWorldMatrix; then, when the scheduler is enabled,
\* one tile is traced and the ray-traced buffer is blended in.
Engine_render ==
    /\ pc = "render"
    /\ LET raster == renderScene(ClearedFramebuffer, nodes, rootNode)
           \* the passes of Engine::renderScene: none without a visible mesh,
           \* one on the CUDA path, the shadow and the main pass on the CPU path
           passes == IF collectVisible(nodes, rootNode) = <<>> THEN <<>>
                     ELSE IF use_cuda_rendering /\ cuda_available THEN <<"cuda pass">>
                     ELSE <<"shadow pass", "camera pass">>
       IN  /\ IF is_active
              THEN /\ \E t \in {5} :
                        performance_samples < MaxSamples /\ render_one_tile(t)
                   /\ framebuffer' =
                        blend_with_framebuffer(raster, is_active', rt_framebuffer',
                                               blend_strength, quality_level',
                                               show_progress_overlay',
                                               progress_overlay')
              ELSE /\ UNCHANGED rtVars
                   /\ framebuffer' = raster
           /\ frame' = frame \o Engine_renderSteps(passes, is_active)
    /\ pc' = "present"
    /\ UNCHANGED <<sceneVars, camera, keys, cuda_available, use_cuda_rendering,
                   blend_strength>>

\* Engine::present
Engine_present ==
    /\ pc = "present"
    /\ pc' = "handleEvents"
    /\ frame' = <<>>
    /\ UNCHANGED <<sceneVars, camera, rtVars, keys, framebuffer, cuda_available,
                   use_cuda_rendering, blend_strength>>

EngineNext ==
    /\ \/ Engine_handleEvent
       \/ Engine_eventsPolled
       \/ Engine_updateCamera
       \/ Engine_update
       \/ Engine_render
       \/ Engine_present
    /\ UNCHANGED <<bvhVars, restVars>>

\* The program as constructed: Scene::Scene, RealtimeRayTracer and Engine
\* constructors, an empty rt_hittable_list.
Init == SceneInit /\ RTInit /\ EngineInit /\ BVHInit

SpecEngine == Init /\ [][EngineNext]_vars

\* The frame loop with the events that decide what a frame draws: the
\* ray-tracing toggle, the CUDA toggle, the overlay toggle and model loads,
\* on a machine with or without a CUDA rasterizer.
Frame_handleEvent ==
    /\ pc = "handleEvents"
    /\ \/ /\ Engine_toggleRealtimeRayTracing
          /\ UNCHANGED <<sceneVars, use_cuda_rendering>>
       \/ /\ toggle_progress_overlay
          /\ UNCHANGED <<sceneVars, use_cuda_rendering>>
       \/ /\ cuda_available
          /\ use_cuda_rendering' = ~use_cuda_rendering
          /\ UNCHANGED <<sceneVars, rtVars>>
       \/ /\ \E p \in Paths : Engine_loadModel(p)
          /\ UNCHANGED <<rtVars, use_cuda_rendering>>
    /\ UNCHANGED <<pc, keys, camera, framebuffer, cuda_available, blend_strength, frame>>

FrameNext ==
    /\ \/ Frame_handleEvent
       \/ Engine_eventsPolled
       \/ Engine_updateCamera
       \/ Engine_update
       \/ Engine_render
       \/ Engine_present
    /\ UNCHANGED <<bvhVars, restVars>>

FrameInit ==
    /\ SceneInit /\ RTInit /\ EngineConstructed /\ BVHInit
    /\ cuda_available \in BOOLEAN
    /\ CameraControlsSet

SpecFrame == FrameInit /\ [][FrameNext]_vars

\* The frame loop over a scene with one mesh, with the events that decide
\* how a frame is composited: the ray-tracing toggle, the quality keys and
\* the key that raises the blend strength.
Blend_handleEvent ==
    /\ pc = "handleEvents"
    /\ \/ /\ Engine_toggleRealtimeRayTracing
          /\ UNCHANGED <<sceneVars, blend_strength>>
       \/ /\ decrease_quality
          /\ UNCHANGED <<sceneVars, blend_strength>>
       \/ /\ increase_quality
          /\ UNCHANGED <<sceneVars, blend_strength>>
       \/ /\ blend_strength' = MaxOf(0, MinOf(10, blend_strength + 1))
          /\ blend_strength' # blend_strength
          /\ UNCHANGED <<sceneVars, rtVars>>
    /\ UNCHANGED <<pc, keys, camera, framebuffer, cuda_available, use_cuda_rendering,
                   frame>>

BlendNext ==
    /\ \/ Blend_handleEvent
       \/ Engine_eventsPolled
       \/ Engine_updateCamera
       \/ Engine_update
       \/ Engine_render
       \/ Engine_present
    /\ UNCHANGED <<bvhVars, restVars>>

SpecBlend == RTSpecInit /\ [][BlendNext]_vars

\* ------------------------------------------------------------------------
\* Engine: camera controls, on the axis the camera looks along
\* ------------------------------------------------------------------------
FAdd(a, b) == IF a = NaN \/ b = NaN THEN NaN ELSE a + b
FSub(a, b) == IF a = NaN \/ b = NaN THEN NaN ELSE a - b
FMul(a, b) == IF a = NaN \/ b = NaN THEN NaN ELSE a * b

\* Vec3f::norm of a vector on the axis
norm(v) == IF v = NaN THEN NaN ELSE Abs(v)

cos(a) == IF a = NaN THEN NaN ELSE IF a = AnglePi THEN 0 - 1 ELSE 1

\* Engine::updateCameraPosition in orbit mode: the eye on the sphere around
\* cameraTarget
updateCameraPosition(target, distance, pitch, yaw) ==
    FAdd(target, FMul(FMul(distance, cos(pitch)), cos(yaw)))

\* The point free-look mode rotates around: the selected mesh node, or the
\* origin.
freeLookPivot(ns, selected, target) ==
    IF selected \in DOMAIN ns /\ ns[selected].model # NoModel
    THEN ns[selected].worldTransform.position
    ELSE 0

InCameraRange(v) == v = NaN \/ Abs(v) <= MaxCameraRange

\* Engine::toggleCameraMode
Engine_toggleCameraMode ==
    /\ orbitMode' = ~orbitMode
    /\ IF ~orbitMode
       THEN LET toCamera == FSub(camera, camera_target)
            IN  /\ cameraDistance' = norm(toCamera)
                /\ cameraTarget' = camera_target
                \* atan2(toCamera.x, toCamera.z) with toCamera.x = 0
                /\ cameraRotationY' = IF toCamera = NaN THEN NaN
                                      ELSE IF toCamera < 0 THEN AnglePi ELSE 0
                \* asin(toCamera.y / cameraDistance) with toCamera.y = 0
                /\ cameraRotationX' = IF norm(toCamera) = NaN \/ norm(toCamera) = 0
                                      THEN NaN ELSE 0
                /\ UNCHANGED camera_target
       ELSE /\ camera_target' = freeLookPivot(nodes, selectedNode, camera_target)
            /\ UNCHANGED <<cameraDistance, cameraTarget, cameraRotationX,
                           cameraRotationY>>
    /\ round_trip' = IF orbitMode
                     THEN [n |-> 1, eye |-> camera, target |-> camera_target]
                     ELSE IF round_trip.n = 1 THEN [round_trip EXCEPT !.n = 2]
                     ELSE NoRoundTrip
    /\ UNCHANGED camera

\* Engine::zoomCamera
Engine_zoomCamera(amount) ==
    /\ IF orbitMode
       THEN \* std::max(0.5f, std::min(50.0f, d)): std::min keeps 50 for a NaN
            /\ cameraDistance' =
                 LET d == FAdd(cameraDistance, amount)
                 IN  IF d = NaN THEN MaxDistance
                     ELSE MaxOf(MinDistance, MinOf(MaxDistance, d))
            /\ camera' = updateCameraPosition(cameraTarget, cameraDistance',
                                              cameraRotationX, cameraRotationY)
            /\ camera_target' = cameraTarget
       ELSE LET \* Vec3f::normalize: the vector times 1/norm, NaN for the
                \* zero vector
                v == FSub(camera_target, camera)
                forward == IF v = NaN \/ v = 0 THEN NaN ELSE IF v > 0 THEN 1 ELSE 0 - 1
            IN  /\ camera' = FAdd(camera, FMul(forward, amount))
                /\ camera_target' = FAdd(camera_target, FMul(forward, amount))
                /\ UNCHANGED cameraDistance
    /\ InCameraRange(camera') /\ InCameraRange(camera_target')
    /\ round_trip' = NoRoundTrip
    /\ UNCHANGED <<orbitMode, cameraTarget, cameraRotationX, cameraRotationY>>

\* The camera controls with the scene operations that decide the pivot.
CameraNext ==
  /\ UNCHANGED <<rtVars, engineVars, frameVars, modelVars, shaderVars, rayVars, conv,
                 tile_clock, bvhVars>>
  /\
    \/ /\ Engine_toggleCameraMode
       /\ UNCHANGED sceneVars
    \/ /\ \E amount \in {0 - 1, 1} : Engine_zoomCamera(amount)
       /\ UNCHANGED sceneVars
    \/ /\ \E p \in Paths : Engine_loadModel(p)
       /\ round_trip' = NoRoundTrip
       /\ UNCHANGED <<camera, orbitMode, cameraDistance, cameraRotationX,
                      cameraRotationY, cameraTarget, camera_target>>
    \/ /\ Engine_deleteSelectedObject
       /\ round_trip' = NoRoundTrip
       /\ UNCHANGED <<camera, orbitMode, cameraDistance, cameraRotationX,
                      cameraRotationY, cameraTarget, camera_target>>
    \/ /\ selectedNode \in Live
       /\ nodes[selectedNode].localTransform.position < MaxOffset
       /\ nodes' = updateAllTransforms(moveSelectedObject(nodes, selectedNode, 1),
                                        rootNode)
       /\ round_trip' = NoRoundTrip
       /\ UNCHANGED <<rootNode, selectedNode, loadedModels, ret, camera, orbitMode,
                      cameraDistance, cameraRotationX, cameraRotationY, cameraTarget,
                      camera_target>>

CameraInit ==
    /\ SceneInit /\ RTInit /\ EngineConstructed /\ BVHInit
    /\ cuda_available = FALSE
    \* the camera controls as the constructor of part_011 leaves them: not
    \* initialised, so any value
    /\ orbitMode \in BOOLEAN
    /\ cameraDistance \in {1, 2}
    /\ cameraRotationX \in {0, NaN}
    /\ cameraRotationY \in {0, AnglePi}
    /\ cameraTarget \in {0, 1}
    /\ camera_target = 0
    /\ round_trip = NoRoundTrip

SpecCamera == CameraInit /\ [][CameraNext]_vars

\* ------------------------------------------------------------------------
\* Model: blend shapes
\* ------------------------------------------------------------------------
\* A vertex coordinate is a float of FloatBits significand bits, written as
\* an integer; a weight is a float in halves (One is 1.0f).
One == 2
VertexValues == {1, 10}
WeightInputs == {0, One, 2 * One, NaN}
ShapeOrder == <<"a", "b">>
ShapeNames == {"a", "b"}


\* The gap between neighbouring floats at magnitude m.
RECURSIVE ulp(_, _)
ulp(m, q) == IF m < Pow2(FloatBits) * q THEN q ELSE ulp(m, 2 * q)

\* The float nearest to n/d, ties to even: what every float operation
\* leaves of its exact result.
roundFloat(n, d) ==
    LET m == Abs(n)
        q == ulp(m \div d, 1)
        lo == (m \div (q * d)) * q
        r == m - lo * d
        mag == IF 2 * r < q * d THEN lo
               ELSE IF 2 * r > q * d THEN lo + q
               ELSE IF (lo \div q) % 2 = 0 THEN lo
               ELSE lo + q
    IN  IF n < 0 THEN 0 - mag ELSE mag

\* std::max(0.0f, std::min(1.0f, weight)): std::min keeps 1 for a NaN
clampWeightMutNone(weight) == weight

clampWeight(weight) ==
    IF weight = NaN THEN One ELSE MaxOf(0, MinOf(One, weight))

\* targetVertices.size() != verts_.size() in Model::addBlendShape
sizeMismatchMutNever(targetVertices, vs) == FALSE

sizeMismatch(targetVertices, vs) == Len(targetVertices) # Len(vs)

\* Model::setBlendWeight on the weights
setWeight(weights, shapes, shapeName, weight) ==
    IF shapeName \in DOMAIN shapes
    THEN [weights EXCEPT ![shapeName] = clampWeight(weight)]
    ELSE weights

\* The loop of Model::applyBlendShapes over the shapes, in key order
RECURSIVE applyShapes(_, _, _, _, _)
applyShapes(vs, orig, shapes, weights, k) ==
    IF k > Len(ShapeOrder) THEN vs
    ELSE LET name == ShapeOrder[k]
         IN  IF name \in DOMAIN shapes /\ weights[name] > 0
             THEN LET targetVerts == shapes[name]
                      weight == weights[name]
                      moved == [i \in DOMAIN vs |->
                                 LET offset == roundFloat(
                                       roundFloat(targetVerts[i] - orig[i], 1) * weight, One)
                                 IN  roundFloat(vs[i] + offset, 1)]
                  IN  applyShapes(moved, orig, shapes, weights, k + 1)
             ELSE applyShapes(vs, orig, shapes, weights, k + 1)

\* Model::applyBlendShapes with the weights given
applyBlendShapes(weights) ==
    LET orig == IF hasBackup_ THEN originalVerts_ ELSE verts_
    IN  /\ originalVerts_' = orig
        /\ hasBackup_' = TRUE
        /\ verts_' = applyShapes(orig, orig, blendShapes, weights, 1)
        /\ blendWeights' = weights
        /\ UNCHANGED blendShapes

Cleared(weights) == [name \in DOMAIN weights |-> 0]

\* Model::addBlendShape
Model_addBlendShape(name, targetVertices) ==
    /\ IF sizeMismatch(targetVertices, verts_)
       THEN UNCHANGED <<blendShapes, blendWeights>>
       ELSE /\ blendShapes' = (name :> targetVertices) @@ blendShapes
            /\ blendWeights' = (name :> 0) @@ blendWeights
    /\ model_call' = [op |-> "addBlendShape", name |-> name, arg |-> Len(targetVertices)]
    /\ UNCHANGED <<verts_, originalVerts_, hasBackup_>>

\* Model::setBlendWeight
Model_setBlendWeight(shapeName, weight) ==
    /\ blendWeights' = setWeight(blendWeights, blendShapes, shapeName, weight)
    /\ model_call' = [op |-> "setBlendWeight", name |-> shapeName, arg |-> weight]
    /\ UNCHANGED <<verts_, originalVerts_, hasBackup_, blendShapes>>

\* Model::applyBlendShapes
Model_applyBlendShapes ==
    /\ applyBlendShapes(blendWeights)
    /\ model_call' = [op |-> "applyBlendShapes", name |-> "", arg |-> 0]

\* Model::clearAllBlendWeights
Model_clearAllBlendWeights ==
    /\ applyBlendShapes(Cleared(blendWeights))
    /\ model_call' = [op |-> "clearAllBlendWeights", name |-> "", arg |-> 0]

\* Model::setExpressionByName: clearAllBlendWeights, then the weight of the
\* named shape and applyBlendShapes when the shape exists
Model_setExpressionByName(name, intensity) ==
    /\ applyBlendShapes(setWeight(Cleared(blendWeights), blendShapes, name, intensity))
    /\ model_call' = [op |-> "setExpressionByName", name |-> name, arg |-> intensity]

\* Model::blendBetweenExpressions
Model_blendBetweenExpressions(from, to, t) ==
    /\ IF from \notin DOMAIN blendShapes \/ to \notin DOMAIN blendShapes
       THEN UNCHANGED <<verts_, originalVerts_, hasBackup_, blendShapes, blendWeights>>
       ELSE LET fromWeight == IF t = NaN THEN NaN ELSE One - t
                toWeight == t
            IN  applyBlendShapes(
                    setWeight(setWeight(Cleared(blendWeights), blendShapes,
                                        from, fromWeight),
                              blendShapes, to, toWeight))
    /\ model_call' = [op |-> "blendBetweenExpressions", name |-> "", arg |-> t]

\* The blend-shape calls on one Model; the vertex sets a caller hands to
\* addBlendShape are of the model's size or one short.
ModelNext ==
  /\ UNCHANGED <<sceneVars, camera, rtVars, engineVars, frameVars, cameraVars, shaderVars,
                 rayVars, conv, tile_clock, bvhVars>>
  /\
    \/ \E name \in ShapeNames,
         target \in UNION {[1..n -> VertexValues] : n \in {MaxVerts - 1, MaxVerts}} :
         Model_addBlendShape(name, target)
    \/ \E name \in ShapeNames, w \in WeightInputs : Model_setBlendWeight(name, w)
    \/ Model_applyBlendShapes
    \/ Model_clearAllBlendWeights
    \/ \E name \in ShapeNames, w \in WeightInputs : Model_setExpressionByName(name, w)
    \/ \E from \in ShapeNames, to \in ShapeNames, t \in WeightInputs :
         Model_blendBetweenExpressions(from, to, t)

\* Model::Model on a readable file of MaxVerts vertices: the vertices are
\* backed up, there is no blend shape.
ModelInit ==
    /\ SceneInit /\ RTInit /\ BVHInit
    /\ pc = "handleEvents" /\ keys = {} /\ framebuffer = ClearedFramebuffer
    /\ use_cuda_rendering = FALSE /\ blend_strength = InitialBlendStrength
    /\ frame = <<>> /\ cuda_available = FALSE
    /\ CameraControlsSet
    /\ verts_ \in [1..MaxVerts -> VertexValues]
    /\ originalVerts_ = verts_
    /\ hasBackup_ = TRUE
    /\ blendShapes = EmptyMap
    /\ blendWeights = EmptyMap
    /\ model_call = NoCall
    /\ ShadersIdle /\ RayIdle /\ ConvIdle /\ ClockUnread

SpecModel == ModelInit /\ [][ModelNext]_vars

\* SceneNode::setVisible
SceneNode_setVisible(id, vis) ==
    /\ nodes[id].visible # vis
    /\ nodes' = [nodes EXCEPT ![id].visible = vis]
    /\ UNCHANGED <<rootNode, selectedNode, loadedModels, ret>>

\* The scheduler's snapshot over a scene whose nodes are shown and hidden.
VisibleNext ==
  /\ UNCHANGED <<camera, engineVars, frameVars, restVars, bvhVars>>
  /\
    \/ /\ \E id \in Live, vis \in BOOLEAN : SceneNode_setVisible(id, vis)
       /\ UNCHANGED rtVars
    \/ /\ \E p \in Paths : Scene_loadModel(p, EmptyName)
       /\ UNCHANGED rtVars
    \/ /\ Scene_createEmptyNode(<<"a">>)
       /\ UNCHANGED rtVars
    \/ /\ toggle
       /\ UNCHANGED sceneVars
    \/ /\ mark_scene_dirty
       /\ UNCHANGED sceneVars
    \/ /\ update_scene(nodes)
       /\ UNCHANGED <<is_active, quality_level, tile_size, total_tiles_x,
                      total_tiles_y, rt_cam, flagVars, statVars, sceneVars>>

SpecVisible == Init /\ [][VisibleNext]_vars

SpecBVH == Init /\ [][BVHNext]_vars

SpecScene == Init /\ [][SceneNext]_vars

SpecGraph == Init /\ [][GraphNext]_vars

\* The renderer over a ground plane and one triangle above it, lit from
\* directly above: the footprint of the triangle, its height over the
\* ground, the order of the two faces in the model and the place of the
\* depth test in triangle() vary.
ShadowInit ==
    /\ SceneInit /\ RTInit /\ BVHInit
    /\ pc = "handleEvents" /\ keys = {} /\ framebuffer = ClearedFramebuffer
    /\ use_cuda_rendering = FALSE /\ blend_strength = InitialBlendStrength
    /\ frame = <<>> /\ cuda_available = FALSE
    /\ CameraControlsSet
    /\ verts_ = <<>> /\ originalVerts_ = <<>> /\ hasBackup_ = FALSE
    /\ blendShapes = EmptyMap /\ blendWeights = EmptyMap /\ model_call = NoCall
    /\ shadowbuffer = [x \in 0..(ShadowWidth - 1) |-> FloatMax]
    /\ tempZ = [x \in 0..(ShadowWidth - 1) |-> 0]
    /\ shadow_scene \in {s \in [lo : 0..(ShadowWidth - 1), hi : 0..(ShadowWidth - 1), gap : Gaps,
                                 ground : {0, 5000},
                                 first : {"ground", "triangle"}, test_first : BOOLEAN] :
                           s.lo <= s.hi}
    /\ shader_pc = [pass |-> 0, i |-> 1, seen |-> {}]
    /\ shade = <<>>
    /\ RayIdle /\ ConvIdle /\ ClockUnread

SpecShadow == ShadowInit /\ [][ShadowNext]_vars

\* ray_color runs to its end once called: the program is sequential and
\* nothing else runs in between.
SpecRay == Init /\ [][RayNext]_vars /\ WF_rayVars(ray_color)

SpecConv == Init /\ [][ConvNext]_vars

\* The tracer on a machine whose tile times depend on the quality level
\* alone; camera and scene stay as they are.  The user turns the tracer and
\* the adaptive quality on, and from then on Engine::run renders one tile
\* per frame.
AdaptiveInit ==
    /\ nodes = addChild((1 :> NewNode(RootName, NoModel)) @@ (2 :> NewNode(<<"a">>, "a.obj")), 1, 2)
    /\ rootNode = 1
    /\ selectedNode = NULL
    /\ loadedModels = {"a.obj"}
    /\ ret = Ret("Scene", NULL)
    /\ camera = InitialCamera
    /\ RTInit /\ BVHInit
    /\ pc = "handleEvents" /\ keys = {} /\ framebuffer = ClearedFramebuffer
    /\ use_cuda_rendering = FALSE /\ blend_strength = InitialBlendStrength
    /\ frame = <<>> /\ cuda_available = FALSE
    /\ CameraControlsSet
    /\ verts_ = <<>> /\ originalVerts_ = <<>> /\ hasBackup_ = FALSE
    /\ blendShapes = EmptyMap /\ blendWeights = EmptyMap /\ model_call = NoCall
    /\ ShadersIdle /\ RayIdle /\ ConvIdle
    /\ tile_clock \in [MinQuality..MaxQuality -> TileTimes]

AdaptiveNext ==
    /\ \/ ~is_active /\ toggle /\ UNCHANGED tile_clock
       \/ ~adaptive_quality /\ toggle_adaptive_quality /\ UNCHANGED tile_clock
       \/ adaptive_quality /\ render_timed_tile
    /\ UNCHANGED <<sceneVars, camera, engineVars, frameVars, cameraVars, modelVars, shaderVars,
                   rayVars, conv, bvhVars>>

adaptiveVars == <<is_active, adaptive_quality, quality_level, current_tile_x, current_tile_y,
                  average_frame_time, performance_samples, pass>>

\* A step of AdaptiveNext that times a tile: the only one that counts it.
TileTimed ==
    is_active /\ adaptive_quality /\ performance_samples' = countTile(performance_samples)

\* The user does turn the tracer and the adaptive quality on, and Engine::run
\* goes on rendering a tile per frame.
SpecAdaptive ==
    /\ AdaptiveInit /\ [][AdaptiveNext]_vars
    /\ WF_adaptiveVars(~is_active /\ toggle)
    /\ WF_adaptiveVars(~adaptive_quality /\ toggle_adaptive_quality)
    /\ WF_performance_samples(TileTimed)

\* ------------------------------------------------------------------------
\* RealtimeRayTracer: properties
\* ------------------------------------------------------------------------
\* A step of render_one_tile while enabled: the only step that counts a
\* performance sample.
TileRendered == performance_samples' = performance_samples + 1

\* The cursor's place in row-major raster order.
RasterIndex(cx, cy, tx) == cy * tx + cx

\* C1 as stated: after exactly total_tiles_x * total_tiles_y calls to
\* render_one_tile with no camera movement or scene edit in between, every
\* pixel of the low-resolution buffer has been written at least once.
C1_EveryPixelWritten ==
    pass.calls = pass.total => pass.written = RtPixels

\* C1 amended: the same, when the quality level did not change in between
\* either (the adaptive controller changes it from inside render_one_tile).
C1_EveryPixelWrittenAtFixedQuality ==
    (pass.calls = pass.total /\ pass.clean) => pass.written = RtPixels

C1_Witness ==
    /\ is_active
    /\ pass.total = 4 /\ pass.calls = pass.total /\ pass.clean
    /\ pass.written = RtPixels
    /\ current_tile_x = 0 /\ current_tile_y = 0

\* C5 as stated: with adaptive quality enabled, a slow tile time never
\* raises the quality level and a fast tile time never lowers it.
C5_Monotonic ==
    [][(TileRendered /\ adaptive_quality) =>
        /\ (tile_time' > 2 * target_tile_time => quality_level' <= quality_level)
        /\ (2 * tile_time' < target_tile_time => quality_level' >= quality_level)]_vars

\* C5 amended: with adaptive quality enabled, a slow tile time fed to a
\* controller whose moving average is not below half the target (or that
\* has no sample yet) never raises the quality level, and lowers it by one,
\* down to the floor 1, when the average it leaves is above twice the
\* target; symmetrically a fast tile time fed to a controller whose average
\* is not above twice the target (or that has no sample yet) never lowers
\* the level, and raises it by one, up to the ceiling 4, when the average
\* it leaves is below half the target.
C5_MonotonicOnceAverageFollows ==
    [][(TileRendered /\ adaptive_quality) =>
        /\ (tile_time' > 2 * target_tile_time
              /\ (performance_samples = 0 \/ ~FastEnough(average_frame_time)))
            => /\ quality_level' <= quality_level
               /\ TooSlow(average_frame_time')
                    => quality_level' = MaxOf(quality_level - 1, MinQuality)
        /\ (2 * tile_time' < target_tile_time
              /\ (performance_samples = 0 \/ ~TooSlow(average_frame_time)))
            => /\ quality_level' >= quality_level
               /\ FastEnough(average_frame_time')
                    => quality_level' = MinOf(quality_level + 1, MaxQuality)]_vars

C5_Witness ==
    /\ adaptive_quality /\ is_active
    /\ performance_samples >= 2
    /\ tile_time > 2 * target_tile_time
    /\ TooSlow(average_frame_time)
    /\ quality_level = MinQuality

\* C6: when update_scene detects that the camera moved past the threshold
\* since the last check, it resets the tile cursor to (0,0) and clears both
\* the low-resolution ray-traced framebuffer and the progress overlay.
C6_CameraMoveResets ==
    [][last_camera_position' # last_camera_position =>
        /\ current_tile_x' = 0 /\ current_tile_y' = 0
        /\ rt_framebuffer' = ClearedRt
        /\ progress_overlay' = ClearedOverlay]_vars

C6_Witness ==
    /\ is_active
    /\ performance_samples > 0
    /\ camera = 0 /\ last_camera_position = camera
    /\ pass.calls = 0
    /\ ~show_progress_overlay
    /\ current_tile_x = 0 /\ current_tile_y = 0
    /\ rt_framebuffer = ClearedRt /\ progress_overlay = ClearedOverlay

\* C7 as stated: each invocation of render_one_tile while enabled advances
\* the tile cursor by exactly one tile in row-major raster order, wrapping
\* to (0,0) after the last tile.
C7_AdvancesOneTile ==
    [][TileRendered =>
        /\ current_tile_x' \in 0..(total_tiles_x - 1)
        /\ current_tile_y' \in 0..(total_tiles_y - 1)
        /\ RasterIndex(current_tile_x', current_tile_y', total_tiles_x)
             = (RasterIndex(current_tile_x, current_tile_y, total_tiles_x) + 1)
                  % (total_tiles_x * total_tiles_y)]_vars

\* C7 amended: the same, unless the adaptive controller changes the quality
\* level in that invocation; then the cursor is reset to (0,0).
C7_AdvancesOneTileOrResets ==
    [][TileRendered =>
        IF quality_level' = quality_level
        THEN /\ current_tile_x' \in 0..(total_tiles_x - 1)
             /\ current_tile_y' \in 0..(total_tiles_y - 1)
             /\ RasterIndex(current_tile_x', current_tile_y', total_tiles_x)
                  = (RasterIndex(current_tile_x, current_tile_y, total_tiles_x) + 1)
                       % (total_tiles_x * total_tiles_y)
        ELSE current_tile_x' = 0 /\ current_tile_y' = 0]_vars

C7_Witness ==
    /\ is_active
    /\ total_tiles_x = 2 /\ total_tiles_y = 2
    /\ pass.calls = 2 /\ pass.clean
    /\ current_tile_x = 0 /\ current_tile_y = 1

\* ------------------------------------------------------------------------
\* rt_bvh: properties
\* ------------------------------------------------------------------------
\* C4: for any ray, t-interval and primitive set, BVH traversal and
\* brute-force intersection agree: both hit or both miss, and on a hit the
\* distance t is the same.
C4_BvhEqualsBruteForce ==
    cast.done =>
        /\ cast.bvh.hit = cast.list.hit
        /\ cast.bvh.hit => (~Less(cast.bvh.t, cast.list.t) /\ ~Less(cast.list.t, cast.bvh.t))

\* ------------------------------------------------------------------------
\* Engine: properties
\* ------------------------------------------------------------------------
\* What a scene edit changes: the nodes, their names, models, places in the
\* hierarchy and local transforms (not the selection flag, not the cached
\* world transform).
SceneContent(ns) ==
    [n \in DOMAIN ns |->
        [name |-> ns[n].name, parent |-> ns[n].parent, children |-> ns[n].children,
         model |-> ns[n].model, localTransform |-> ns[n].localTransform]]

\* parentWorld * localMatrix from the current local transforms of the node
\* and its ancestors, the identity above the root.
RECURSIVE WorldMatrixOf(_, _)
WorldMatrixOf(ns, id) ==
    IF ns[id].parent = NULL THEN MatMul(Identity, getMatrix(ns[id].localTransform))
    ELSE MatMul(WorldMatrixOf(ns, ns[id].parent), getMatrix(ns[id].localTransform))

\* C2: every scene edit made while ray tracing is enabled (a model loaded,
\* a node deleted, a node's transform changed) sets the scheduler's dirty
\* flag and resets the accumulation: cursor at (0,0), buffer cleared.
C2_EditSetsDirty ==
    [][(is_active /\ SceneContent(nodes') # SceneContent(nodes)) =>
        /\ world_needs_update'
        /\ current_tile_x' = 0 /\ current_tile_y' = 0
        /\ rt_framebuffer' = ClearedRt]_vars

\* C3: whenever the scene is rendered, every node's world transform is
\* parentWorld * localMatrix of the current local transforms.
C3_WorldTransformCurrentAtRender ==
    pc = "render" =>
        \A n \in Live : getWorldMatrix(nodes, n) = WorldMatrixOf(nodes, n)

\* ------------------------------------------------------------------------
\* Scene graph: properties
\* ------------------------------------------------------------------------
\* C8: when deleteNode deletes the node the selected-node pointer
\* references, the pointer is cleared: after the call it is null and so
\* does not reference the deleted node.
C8_DeleteSelectedClearsSelection ==
    (ret.op = "deleteNode" /\ ret.val = TRUE /\ ret.wasSelected)
        => (selectedNode = NULL /\ selectedNode # ret.node)

C8_Witness ==
    /\ ret.op = "deleteNode" /\ ret.val = TRUE
    /\ ret.node # NULL /\ ret.wasSelected
    /\ ret.node \notin Live
    /\ selectedNode = NULL

\* C9: deleteNode called on the root or on a name that matches no node
\* returns false and changes nothing: same nodes, same parent/child
\* structure, same selection, same root.
C9_RefusedDeleteChangesNothing ==
    [][(ret'.op = "deleteNode"
          /\ (ret'.arg = RootName \/ findNode(nodes, rootNode, ret'.arg) = NULL))
        => (ret'.val = FALSE
              /\ UNCHANGED <<nodes, rootNode, selectedNode, loadedModels>>)]_vars

C9_Witness ==
    /\ ret.op = "deleteNode" /\ ret.val = FALSE
    /\ ret.arg # RootName /\ ret.node = NULL
    /\ Cardinality(Live) > 1
    /\ selectedNode \in Live

\* C10: exactly one node named "Root" exists, it is the scene's root, and
\* it is still there after every deleteNode call.
C10_ExactlyOneRoot ==
    /\ rootNode \in Live
    /\ nodes[rootNode].name = RootName
    /\ nodes[rootNode].parent = NULL
    /\ {n \in Live : nodes[n].name = RootName} = {rootNode}
    /\ (ret.op = "deleteNode" => ret.node # rootNode \/ ret.val = FALSE)

C10_Witness ==
    /\ ret.op = "deleteNode" /\ ret.arg = RootName /\ ret.val = FALSE
    /\ \E n \in Live : nodes[n].name = <<"Root", 1>>


\* ------------------------------------------------------------------------
\* Engine: the frame tick
\* ------------------------------------------------------------------------
\* The place of a step in the order of a frame tick: Engine::update before
\* Engine::render; in Engine::render, renderScene (shadow pass, then the
\* pass from the camera) before render_one_tile and the blend.
StepRank(s) ==
    CASE s = "updateAllTransforms" -> 1
      [] s = "shadow pass" -> 2
      [] s \in {"camera pass", "cuda pass"} -> 3
      [] s = "render_one_tile" -> 4
      [] s = "blend_with_framebuffer" -> 5

StepsOf(seq) == {seq[i] : i \in DOMAIN seq}

C12_SnapshotOfVisibleMeshes ==
    [][(is_active /\ world_needs_update /\ ~world_needs_update')
         => {tri.node : tri \in world'} = StepsOf(collectVisible(nodes, rootNode))]_vars


\* ------------------------------------------------------------------------
\* Engine: camera controls
\* ------------------------------------------------------------------------
\* C13: after orbit -> free-look -> orbit (two toggleCameraMode calls in a
\* row, nothing in between) the camera position and the camera target are
\* the pair the round trip started from.
C13_RoundTripKeepsEyeAndTarget ==
    round_trip.n = 2 => camera = round_trip.eye /\ camera_target = round_trip.target


\* ------------------------------------------------------------------------
\* RealtimeRayTracer: the dead zone of the adaptive-quality controller
\* ------------------------------------------------------------------------
\* C14: the controller, run on the moving average a tile leaves, lowers the
\* quality level only when the average is above twice the target, raises it
\* only when the average is below half the target, and leaves the level as
\* it is whenever the average lies between half and twice the target.
C14_DeadZone ==
    [][(TileRendered /\ adaptive_quality) =>
        LET avg == average_frame_time'
            above == avg.n > 2 * target_tile_time * avg.d
            below == 2 * avg.n < target_tile_time * avg.d
        IN  /\ quality_level' < quality_level => above
            /\ quality_level' > quality_level => below
            /\ (~above /\ ~below) => quality_level' = quality_level]_vars

\* The controller has run on an average inside the band, after a slow tile.
C14_Witness ==
    /\ adaptive_quality /\ is_active
    /\ performance_samples >= 2
    /\ tile_time > 2 * target_tile_time
    /\ average_frame_time.n <= 2 * target_tile_time * average_frame_time.d
    /\ 2 * average_frame_time.n >= target_tile_time * average_frame_time.d


\* ------------------------------------------------------------------------
\* RealtimeRayTracer: compositing
\* ------------------------------------------------------------------------
\* Engine::render has run its blend: the step from render to present with
\* the scheduler enabled.
Composited == pc = "render" /\ pc' = "present" /\ is_active

\* The ray-traced pixel a framebuffer pixel maps to, nearest neighbour.
NearestRt(p) ==
    (((p \div RenderWidth) * rt_height) \div RenderHeight) * rt_width
        + ((p % RenderWidth) * rt_width) \div RenderWidth

\* The colour the overlay leaves of a composited colour.
Overlaid(out, p) ==
    IF show_progress_overlay' /\ progress_overlay'[p] > 0
    THEN MinOf(255, out + progress_overlay'[p] \div 4)
    ELSE out

\* C15 as stated: every framebuffer pixel whose nearest ray-traced pixel is
\* not black becomes rt*blend + raster*(1 - blend) with the blend strength
\* as the factor, every other pixel keeps its rasterized colour; the
\* progress overlay comes on top.
C15_BlendWithBlendStrength ==
    [][Composited =>
        \A p \in MainPixels :
            LET raster == renderScene(ClearedFramebuffer, nodes, rootNode)[p]
                rt == rt_framebuffer'[NearestRt(p)]
                out == IF rt # Black
                       THEN (rt * blend_strength + raster * (10 - blend_strength)) \div 10
                       ELSE raster
            IN  framebuffer'[p] = Overlaid(out, p)]_vars

\* C15 amended: the factor is the blend strength, times 0.6 while the
\* quality level is 1.
C15_BlendWithScaledStrength ==
    [][Composited =>
        \A p \in MainPixels :
            LET raster == renderScene(ClearedFramebuffer, nodes, rootNode)[p]
                rt == rt_framebuffer'[NearestRt(p)]
                hundredths == IF quality_level' = 1 THEN 6 * blend_strength
                              ELSE 10 * blend_strength
                out == IF rt # Black
                       THEN (rt * hundredths + raster * (100 - hundredths)) \div 100
                       ELSE raster
            IN  framebuffer'[p] = Overlaid(out, p)]_vars

\* A composited frame with one pixel mixed with a ray-traced colour and one
\* pixel, not traced yet, left with its rasterized colour.
C15_Witness ==
    /\ pc = "present" /\ is_active
    /\ \E p, q \in MainPixels :
         /\ rt_framebuffer[NearestRt(p)] # Black
         /\ framebuffer[p] \notin {Black, MeshColor, HitColor}
         /\ rt_framebuffer[NearestRt(q)] = Black
         /\ framebuffer[q] = MeshColor


\* ------------------------------------------------------------------------
\* RealtimeRayTracer: switched off
\* ------------------------------------------------------------------------
\* C16: the toggle that switches ray tracing off leaves the tile cursor and
\* the accumulated buffer as they are; and while ray tracing is off, no
\* step of a frame renders a tile, moves the cursor, changes the
\* accumulated buffer or blends it: the framebuffer a frame leaves is the
\* rasterized image.
C16_OffStopsTiles ==
    [][/\ (is_active /\ ~is_active')
            => UNCHANGED <<current_tile_x, current_tile_y, rt_framebuffer>>
       /\ (~is_active /\ pc # "handleEvents")
            => /\ UNCHANGED <<current_tile_x, current_tile_y, rt_framebuffer,
                              performance_samples>>
               /\ StepsOf(frame') \cap {"render_one_tile", "blend_with_framebuffer"} = {}
               /\ pc = "render"
                    => framebuffer' = renderScene(ClearedFramebuffer, nodes, rootNode)]_vars

\* Ray tracing was switched off in the middle of a pass, and a frame has
\* been drawn since: the cursor and the traced pixels are still there, the
\* framebuffer holds the rasterized image.
C16_Witness ==
    /\ ~is_active /\ pc = "present"
    /\ current_tile_x = 1 /\ current_tile_y = 0
    /\ rt_framebuffer # ClearedRt
    /\ framebuffer = renderScene(ClearedFramebuffer, nodes, rootNode)
    /\ framebuffer # ClearedFramebuffer


\* ------------------------------------------------------------------------
\* Scene: a mesh load that fails
\* ------------------------------------------------------------------------
\* C20: a Scene::loadModel call on a file that yields no vertex returns
\* null and leaves the nodes, the selection and the model registry as they
\* were; a loadModel call on a readable file, before or after a failed one,
\* returns a new mesh node and registers the model.
C20_FailedLoadChangesNothing ==
    [][ret'.op = "loadModel" =>
        IF FileVerts(ret'.arg) = 0
        THEN /\ ret'.val = NULL
             /\ UNCHANGED <<nodes, rootNode, selectedNode, loadedModels>>
        ELSE /\ ret'.val \in DOMAIN nodes' \ DOMAIN nodes
             /\ nodes'[ret'.val].model = ret'.arg
             /\ ret'.arg \in loadedModels']_vars

\* A load has just failed in a scene that already holds a mesh node.
C20_Witness ==
    /\ ret.op = "loadModel" /\ ret.val = NULL /\ FileVerts(ret.arg) = 0
    /\ \E n \in Live : nodes[n].model # NoModel
    /\ ret.arg \notin loadedModels


\* ------------------------------------------------------------------------
\* Blend shapes
\* ------------------------------------------------------------------------
\* C17: Model::addBlendShape with a target whose vertex count differs from
\* the model's returns without storing the shape or a weight and without
\* touching the vertices: the model is as it was before the call.
C17_MismatchedShapeRejected ==
    [][(model_call'.op = "addBlendShape" /\ model_call'.arg # Len(verts_))
        => UNCHANGED <<verts_, originalVerts_, hasBackup_, blendShapes, blendWeights>>]_vars

\* A mismatched shape was offered to a model that already holds a shape
\* with a raised weight, and its name is not among the shapes.
C17_Witness ==
    /\ model_call.op = "addBlendShape"
    /\ model_call.arg # Len(verts_)
    /\ model_call.name \notin DOMAIN blendShapes
    /\ \E name \in DOMAIN blendWeights : blendWeights[name] > 0

\* C18: whatever sequence of addBlendShape, setBlendWeight,
\* setExpressionByName, blendBetweenExpressions and clearAllBlendWeights
\* ran, with whatever arguments, every stored weight lies in [0, 1].
C18_WeightsInUnitRange ==
    \A name \in DOMAIN blendWeights :
        blendWeights[name] >= 0 /\ blendWeights[name] <= One

\* Two shapes were blended with a t of 2, so that one weight was asked to
\* be -1 and the other 2: they are stored as 0 and 1.
C18_Witness ==
    /\ model_call.op = "blendBetweenExpressions"
    /\ model_call.arg = 2 * One
    /\ DOMAIN blendWeights = ShapeNames
    /\ \E from \in ShapeNames : blendWeights[from] = 0
    /\ \E to \in ShapeNames : blendWeights[to] = One

\* C19: a single shape applied with weight 0 leaves every vertex at its
\* original position, and applied with weight 1 puts every vertex exactly
\* at the shape's target position.
C19_WeightZeroAndOneExact ==
    [][(/\ model_call'.op = "setExpressionByName"
        /\ model_call'.name \in DOMAIN blendShapes)
        => /\ model_call'.arg = 0 => verts_' = originalVerts_'
           /\ model_call'.arg = One => verts_' = blendShapes[model_call'.name]]_vars

\* ------------------------------------------------------------------------
\* Node names
\* ------------------------------------------------------------------------
\* C21: generateUniqueName appends _1, _2, ... until no node has the
\* candidate name, so whatever loadModel, createEmptyNode and deleteNode
\* calls were made, no two nodes of the scene have the same name.
C21_NamesPairwiseDistinct ==
    \A m, n \in Live : m # n => nodes[m].name # nodes[n].name

\* A name was asked for twice: one node has it, the next one has it with
\* the suffix _1.
C21_Witness ==
    \E m, n \in Live :
        /\ nodes[m].name = <<"a">>
        /\ nodes[n].name = <<"a", 1>>
        /\ ret.val = n

\* ------------------------------------------------------------------------
\* Selection flags
\* ------------------------------------------------------------------------
\* C29: whatever selectNode, clearSelection, deleteNode, loadModel,
\* createEmptyNode and clear calls were made, a node's selected flag is set
\* exactly when the scene's selectedNode points at it, so at most one node
\* has the flag set.
C29_SelectedFlagFollowsPointer ==
    /\ \A n \in Live : nodes[n].selected <=> selectedNode = n
    /\ Cardinality({n \in Live : nodes[n].selected}) <= 1

\* The selection has just moved from one node to another: the flag went
\* with it.
C29_Witness ==
    /\ ret.op = "selectNode"
    /\ selectedNode \in Live
    /\ nodes[selectedNode].selected
    /\ \E n \in Live \ {selectedNode} : nodes[n].name = <<"a">> /\ ~nodes[n].selected
    /\ nodes[selectedNode].name = <<"a", 1>>

\* ------------------------------------------------------------------------
\* Child lists and back-references
\* ------------------------------------------------------------------------
InChildList(n) ==
    \E p \in Live : \E i \in DOMAIN nodes[p].children : nodes[p].children[i] = n

\* C22: whatever addChild and removeChild calls were made, every node in a
\* child list exists and has the holder of the list as its parent, and a
\* node without a parent is in no child list; what removeChild hands back
\* is such a detached node, still existing, and it hands back nullptr only
\* when no direct child has the name.
C22_ChildListsMatchParents ==
    /\ \A p \in Live : \A i \in DOMAIN nodes[p].children :
          /\ nodes[p].children[i] \in Live
          /\ nodes[nodes[p].children[i]].parent = p
    /\ \A n \in Live : nodes[n].parent = NULL => ~InChildList(n)
    /\ ret.op = "removeChild" =>
          IF ret.val = NULL
          THEN FirstNamed(nodes, nodes[ret.node].children, ret.arg, 1) = 0
          ELSE /\ ret.val \in Live
               /\ nodes[ret.val].parent = NULL
               /\ ~InChildList(ret.val)
               /\ nodes[ret.val].name = ret.arg

\* removeChild has just detached a node that has a child of its own, from
\* a node that has no parent itself.
C22_Witness ==
    /\ ret.op = "removeChild"
    /\ ret.val \in Live
    /\ nodes[ret.val].children # <<>>
    /\ nodes[ret.node].parent = NULL

\* C26: when deleteNode deletes a proper ancestor of the selected node, the
\* selected-node pointer is afterwards null or points at a node that still
\* exists.
C26_SelectionSurvivesAncestorDelete ==
    [][(/\ ret'.op = "deleteNode"
        /\ ret'.val = TRUE
        /\ selectedNode \in Subtree(nodes, ret'.node) \ {ret'.node})
        => (selectedNode' = NULL \/ selectedNode' \in DOMAIN nodes')]_vars


ShadowComparisonAsCoded ==
    /\ \A k \in DOMAIN shade :
         LET f == shade[k]
             px == Trunc(f.x)
         IN  f.shadow = ShadowedFactor <=>
               (px >= 0 /\ px < ShadowWidth /\ f.z > shadowbuffer[px] + Bias)
    /\ shader_pc.pass >= 2 =>
         \A x \in 0..(ShadowWidth - 1) :
            LET zs == {s.z : s \in {t \in shader_pc.seen : t.x = x}}
            IN  /\ zs # {} => shadowbuffer[x] \in zs /\ \A z \in zs : shadowbuffer[x] <= z
                /\ zs = {} => shadowbuffer[x] = FloatMax

\* The ground is lit wherever it lies
GroundAlwaysLit ==
    \A k \in DOMAIN shade : shade[k].prim = "ground" => shade[k].shadow = LitFactor


\* ------------------------------------------------------------------------
\* ray_color
\* ------------------------------------------------------------------------
\* C24: a ray_color call of depth 0 returns black without recursing, a call
\* of depth d makes at most d nested recursive calls, and every call that is
\* started returns.
C24_RayColorTerminates ==
    /\ [](/\ ray_call.calls <= ray_call.d
          /\ Len(ray_stack) <= ray_call.d + 1
          /\ \A k \in DOMAIN ray_stack :
                ray_stack[k].depth = 0 =>
                   /\ k = Len(ray_stack)
                   /\ ray_stack[k].st # "waiting"
                   /\ ray_stack[k].val = 0)
    /\ (ray_call.running ~> ~ray_call.running)

\* A call of the largest depth has recursed that many times, down to the
\* call of depth 0, and has returned.
C24_Witness ==
    /\ ~ray_call.running
    /\ ray_call.d = MaxRayDepth
    /\ ray_call.calls = ray_call.d

\* ------------------------------------------------------------------------
\* unified_math.h
\* ------------------------------------------------------------------------
\* C25: a Vec3f taken through raster_to_rt and then rt_to_raster comes back
\* within epsilon (1e-6) of what it was, component by component.
C25_RoundTripWithinEpsilon ==
    conv.stage = "back" =>
       \A i \in 1..3 : Abs(conv.raster[i] - conv.back[i]) * 1000000 < 1

\* A vector has made the round trip whose components lie where floats are
\* more than one unit apart and where they are not.
C25_Witness ==
    /\ conv.stage = "back"
    /\ Abs(conv.raster[1]) > Pow2(FloatBits)
    /\ conv.raster[2] = 0 - 3
    /\ conv.back = conv.raster


\* ------------------------------------------------------------------------
\* Tile scheduler
\* ------------------------------------------------------------------------
\* C27: whatever the ray tracer has been asked to do, the tile cursor lies
\* inside the grid, and the grid is the one the current tile size gives:
\* the least number of tiles that covers the ray-traced image each way.
C27_CursorInsideGrid ==
    /\ 0 <= current_tile_x /\ current_tile_x < total_tiles_x
    /\ 0 <= current_tile_y /\ current_tile_y < total_tiles_y
    /\ total_tiles_x * tile_size >= rt_width /\ (total_tiles_x - 1) * tile_size < rt_width
    /\ total_tiles_y * tile_size >= rt_height /\ (total_tiles_y - 1) * tile_size < rt_height

\* The cursor is on the last tile of a grid of several tiles that the
\* quality controller has chosen, some tiles having been timed.
C27_Witness ==
    /\ total_tiles_x > 1 /\ total_tiles_y > 1
    /\ current_tile_x = total_tiles_x - 1
    /\ current_tile_y = total_tiles_y - 1
    /\ adaptive_quality
    /\ performance_samples > 2

\* C30: the quality level is one of 1..4, and samples per pixel, recursion
\* depth, tile size and the two grid dimensions are the entries of the table
\* for that level.
C30_SettingsMatchTable ==
    /\ quality_level \in 1..4
    /\ rt_cam.samples_per_pixel = QualityTable(quality_level).samples_per_pixel
    /\ rt_cam.max_depth = QualityTable(quality_level).max_depth
    /\ tile_size = QualityTable(quality_level).tile_size
    /\ total_tiles_x = (rt_width + QualityTable(quality_level).tile_size - 1)
                          \div QualityTable(quality_level).tile_size
    /\ total_tiles_y = (rt_height + QualityTable(quality_level).tile_size - 1)
                          \div QualityTable(quality_level).tile_size

\* The highest level has been reached by the quality controller itself.
C30_Witness ==
    /\ quality_level = 4
    /\ adaptive_quality
    /\ performance_samples > 0
    /\ tile_time > 0


\* C28: with adaptive quality on, camera and scene left alone and tile times
\* that depend on the quality level alone, the quality level changes only
\* finitely often, and a pass over the whole tile grid is completed at one
\* quality level.
C28_QualitySettles ==
    /\ <>[][quality_level' = quality_level]_quality_level
    /\ <>(pass.calls = pass.total /\ pass.clean)

=============================================================================
